---- MODULE Spec2Model ----
(***************************************************************************)
(* QueryCraft: the API gateway (server/src/index.ts, aiProvider.ts) and    *)
(* the browser-side query history store.                                   *)
(*                                                                         *)
(* Texts are sequences of lexical tokens.  White space is not a token: the *)
(* \s* and \n? parts of the gateway's regular expressions and the final    *)
(* trim() only ever remove white space, so they are the identity on token  *)
(* sequences; everything else the code does to a text is computed below.   *)
(***************************************************************************)
EXTENDS Integers, Sequences, FiniteSets, TLC

(***************************************************************************)
(* Tokens                                                                  *)
(***************************************************************************)
\* "str" is a JSON string literal, "word" is prose, and "~~~", "~~~json",
\* "~~~sql" stand for a Markdown code fence (three back-ticks) with its info
\* string; in the quoted regular expressions ~~~ is the three back-ticks too.
KeyName ==
    ( "summary:" :> "summary" @@ "sections:" :> "sections" @@
      "result:" :> "result" @@ "tips:" :> "tips" @@
      "optimizedQuery:" :> "optimizedQuery" @@
      "improvements:" :> "improvements" @@ "indexes:" :> "indexes" @@
      "suggestions:" :> "suggestions" @@ "text:" :> "text" )

KeyTokens == DOMAIN KeyName

FenceTokens == {"~~~json", "~~~sql", "~~~"}

Openers == {"{", "["}

Closers == {"}", "]"}

(***************************************************************************)
(* String operations of the gateway, on token sequences                    *)
(***************************************************************************)
Min(a, b) == IF a < b THEN a ELSE b

\* String.prototype.substring(0, n)
Substring0(s, n) == SubSeq(s, 1, Min(Len(s), n))

\* s.replace(/X/g, r) for a one-token pattern: Rewrite maps a token to the
\* token sequence that replaces it.
RECURSIVE ReplaceTokens(_, _)
ReplaceTokens(s, Rewrite) ==
    IF s = <<>> THEN <<>>
    ELSE (IF Head(s) \in DOMAIN Rewrite THEN Rewrite[Head(s)] ELSE <<Head(s)>>)
         \o ReplaceTokens(Tail(s), Rewrite)

\* .replace(/~~~json\s*/gi, '').replace(/~~~\s*/g, '').trim()
\* "~~~sql" loses its back-ticks and leaves the word sql behind.
StripJsonFences(s) ==
    ReplaceTokens(s, "~~~json" :> <<>> @@ "~~~" :> <<>> @@ "~~~sql" :> <<"word">>)

\* .replace(/~~~sql\n?/gi, '').replace(/~~~\n?/gi, '').trim()
StripSqlFences(s) ==
    ReplaceTokens(s, "~~~sql" :> <<>> @@ "~~~" :> <<>> @@ "~~~json" :> <<"word">>)

\* .replace(/~~~\w*\n?/gi, '').replace(/~~~\n?/gi, '').trim()
StripAnyFences(s) ==
    ReplaceTokens(s, "~~~sql" :> <<>> @@ "~~~" :> <<>> @@ "~~~json" :> <<>>)

Positions(s, toks) == {i \in 1..Len(s) : s[i] \in toks}

SetMin(S) == CHOOSE x \in S : \A y \in S : x <= y

SetMax(S) == CHOOSE x \in S : \A y \in S : y <= x

\* text.match(/\{[\s\S]*\}/) and text.match(/\[[\s\S]*\]/): from the first
\* opening token to the last closing token after it; <<>> stands for null
\* (a match is never empty).
MatchDelimited(s, open, close) ==
    LET os == Positions(s, {open})
    IN  IF os = {} THEN <<>>
        ELSE LET i  == SetMin(os)
                 cs == {j \in Positions(s, {close}) : j > i}
             IN  IF cs = {} THEN <<>> ELSE SubSeq(s, i, SetMax(cs))

MatchObject(s) == MatchDelimited(s, "{", "}")

MatchArray(s) == MatchDelimited(s, "[", "]")

\* .replace(/,\s*}/g, '}') or .replace(/,\s*]/g, ']'): drop every comma
\* that stands right before the closing token.
RemoveCommaBefore(s, close) ==
    LET keep == {i \in 1..Len(s) :
                    ~(s[i] = "," /\ i < Len(s) /\ s[i + 1] = close)}
        nth(k) == CHOOSE i \in keep : Cardinality({j \in keep : j < i}) = k - 1
    IN  [k \in 1..Cardinality(keep) |-> s[nth(k)]]

\* index.ts: .replace(/,\s*}/g, '}').replace(/,\s*]/g, ']')
RepairTrailingCommas(s) == RemoveCommaBefore(RemoveCommaBefore(s, "}"), "]")

\* query-suggestions: .replace(/,\s*]/g, ']').replace(/,\s*}/g, '}')
RepairTrailingCommasArr(s) == RemoveCommaBefore(RemoveCommaBefore(s, "]"), "}")

(***************************************************************************)
(* JSON.parse on token sequences                                           *)
(***************************************************************************)
Depth(t, i) ==
    Cardinality({j \in 1..(i - 1) : t[j] \in Openers})
      - Cardinality({j \in 1..(i - 1) : t[j] \in Closers})

\* the positions that delimit the members of a bracketed list
Cuts(t) == {0, Len(t) + 1} \cup {i \in 1..Len(t) : t[i] = "," /\ Depth(t, i) = 0}

NthCut(t, k) == CHOOSE c \in Cuts(t) : Cardinality({d \in Cuts(t) : d < c}) = k - 1

NumSegs(t) == Cardinality(Cuts(t)) - 1

SegAt(t, k) == SubSeq(t, NthCut(t, k) + 1, NthCut(t, k + 1) - 1)

Inner(s) == SubSeq(s, 2, Len(s) - 1)

\* TRUE iff JSON.parse(s) returns instead of throwing SyntaxError
RECURSIVE IsJSONValue(_)
IsJSONValue(s) ==
    \/ s = <<"str">>
    \/ /\ Len(s) >= 2
       /\ s[1] = "{"
       /\ s[Len(s)] = "}"
       /\ \/ Len(s) = 2
          \/ \A k \in 1..NumSegs(Inner(s)) :
                LET seg == SegAt(Inner(s), k)
                IN  /\ Len(seg) >= 2
                    /\ seg[1] \in KeyTokens
                    /\ IsJSONValue(Tail(seg))
    \/ /\ Len(s) >= 2
       /\ s[1] = "["
       /\ s[Len(s)] = "]"
       /\ \/ Len(s) = 2
          \/ \A k \in 1..NumSegs(Inner(s)) : IsJSONValue(SegAt(Inner(s), k))

\* typeof / Array.isArray of a parsed value
ValueKind(s) ==
    IF s[1] = "{" THEN "object"
    ELSE IF s[1] = "[" THEN (IF Len(s) = 2 THEN "emptylist" ELSE "list")
    ELSE "string"

\* The own properties of the object JSON.parse(s) returns, each with the kind
\* of its value; a repeated key keeps its last value.
ObjectFields(s) ==
    IF Len(s) = 2 THEN {}
    ELSE LET n == NumSegs(Inner(s))
             key(k) == KeyName[SegAt(Inner(s), k)[1]]
         IN  {<<key(k), ValueKind(Tail(SegAt(Inner(s), k)))>> :
                 k \in {i \in 1..n : \A j \in (i + 1)..n : key(j) # key(i)}}

(***************************************************************************)
(* aiProvider.ts: provider selection                                       *)
(***************************************************************************)
\* process.env: each API key is "" (unset or empty, falsy) or "key"
KeyValues == {"", "key"}

ProviderNames == {"gemini", "openai", "anthropic", "groq"}

Environments == [ProviderNames -> KeyValues]

\* getAvailableProvider with the OpenAI test written first
getAvailableProvider_OpenAIFirst(e) ==
    IF e["openai"] # "" THEN "openai"
    ELSE IF e["gemini"] # "" THEN "gemini"
    ELSE IF e["anthropic"] # "" THEN "anthropic"
    ELSE IF e["groq"] # "" THEN "groq"
    ELSE "null"

\* getAvailableProvider(); "null" is null
getAvailableProvider(e) ==
    IF e["gemini"] # "" THEN "gemini"
    ELSE IF e["openai"] # "" THEN "openai"
    ELSE IF e["anthropic"] # "" THEN "anthropic"
    ELSE IF e["groq"] # "" THEN "groq"
    ELSE "null"

(***************************************************************************)
(* Requests, provider replies, responses                                   *)
(***************************************************************************)
\* routes that call generateContent
ContentEndpoints == {"generate-sql", "explain-sql", "convert-sql", "optimize-sql"}

\* routes that read GEMINI_API_KEY and call fetch themselves
GeminiEndpoints ==
    {"sql-to-natural", "mock-results", "analyze-performance", "debug-sql",
     "generate-schema", "export-orm", "image-to-schema", "query-suggestions",
     "generate-multi-sql"}

PostEndpoints == ContentEndpoints \cup GeminiEndpoints

Endpoints == PostEndpoints \cup {"ai-status"}

\* the body fields each route tests before anything else
RequiredFields ==
    [e \in Endpoints |->
        CASE e \in {"generate-sql", "generate-multi-sql"} -> {"prompt"}
          [] e \in {"explain-sql", "optimize-sql", "sql-to-natural",
                    "mock-results", "analyze-performance"} -> {"sql"}
          [] e = "convert-sql" -> {"sql", "toDialect"}
          [] e = "debug-sql" -> {"sql", "error"}
          [] e = "generate-schema" -> {"description"}
          [] e = "export-orm" -> {"sql", "orm"}
          [] e = "image-to-schema" -> {"image"}
          [] e = "query-suggestions" -> {"partialQuery"}
          [] OTHER -> {}]

\* routes that call dialect.toUpperCase()
DialectEndpoints == {"generate-sql", "generate-multi-sql"}

BodyFields ==
    {"prompt", "sql", "toDialect", "error", "description", "orm", "image",
     "partialQuery", "dialect"}

\* A field of req.body is "absent" (undefined), "falsy" ('' or null or 0),
\* "ok" (a non-empty string; for image a data: URL), "badformat" (an image
\* string that is not a data: URL) or "nonstring" (a truthy or null value
\* that has no string methods).
FieldValues(e, f) ==
    IF f = "image" /\ e = "image-to-schema"
        THEN {"absent", "falsy", "ok", "badformat", "nonstring"}
    ELSE IF f \in RequiredFields[e] THEN {"absent", "falsy", "ok"}
    ELSE IF f = "dialect" /\ e \in DialectEndpoints THEN {"absent", "ok", "nonstring"}
    ELSE {"absent"}

\* the fields route e reads
ReadFields(e) ==
    RequiredFields[e] \cup (IF e \in DialectEndpoints THEN {"dialect"} ELSE {})

Bodies(e) ==
    {[f \in BodyFields |-> IF f \in ReadFields(e) THEN c[f] ELSE "absent"] :
        c \in {d \in [ReadFields(e) -> {"absent", "falsy", "ok", "badformat", "nonstring"}] :
                  \A f \in ReadFields(e) : d[f] \in FieldValues(e, f)}}

EmptyBody == [f \in BodyFields |-> "absent"]

\* !field
Missing(b, f) == b[f] \in {"absent", "falsy"}

\* What the outbound call does: fetch rejects ("throw"), response.json()
\* rejects ("badbody"), the provider answers { error: { message } } ("error")
\* or an error payload without a message ("errorNoMsg"), or it answers with
\* model text ("text"; no candidates gives the empty text).
Outcome(kind, text) == [kind |-> kind, text |-> text]

NoOutcome == Outcome("none", <<>>)

ReplyTexts ==
    { <<>>,
      <<"word">>,
      <<"str">>,
      <<"{">>,
      <<"{", "}">>,
      <<"{", "summary:", "str", ",", "sections:", "[", "]", ",",
        "result:", "str", ",", "tips:", "[", "str", "]", "}">>,
      <<"{", "summary:", "str", ",", "}">>,
      <<"{", "summary:", "str", "word", "}">>,
      <<"{", "sections:", "str", ",", "tips:", "{", "}", "}">>,
      <<"~~~json", "{", "summary:", "str", "}", "~~~">>,
      <<"word", "{", "word", "}">>,
      <<"{", "optimizedQuery:", "str", ",", "improvements:", "[", "]", ",",
        "indexes:", "[", "]", "}">>,
      <<"~~~sql", "SELECT", "word", ";", "~~~">>,
      <<"~~~sql", "~~~">>,
      <<"{", "SELECT", "word", ";", "word", "}">>,
      <<"SELECT", "word">>,
      <<"[", "{", "text:", "str", "}", "]">>,
      <<"[", "str", ",", "]">>,
      <<"[", "word", "]">>,
      <<"{", "suggestions:", "str", "}">>,
      <<"notadb">> }

Outcomes ==
    {Outcome(k, <<>>) : k \in {"throw", "badbody", "error", "errorNoMsg"}}
      \cup {Outcome("text", t) : t \in ReplyTexts}

\* res.status(status).json(body): the body's properties with the kind of
\* each value, and the text the body carries (the message, the SQL, the
\* parsed JSON ...).  Status 0: nothing sent.
Response(status, fields, text) == [status |-> status, fields |-> fields, text |-> text]

NoResponse == Response(0, {}, <<>>)

\* res.status(status).json({ error: message }); JSON.stringify drops a
\* property whose value is undefined ("")
ErrorResponse(status, message) ==
    IF message = "" THEN Response(status, {}, <<>>)
    ELSE Response(status, {<<"error", "string">>}, <<message>>)

\* a || b on strings
OrElse(a, b) == IF a = "" THEN b ELSE a

\* error.message of what the awaited call threw
ThrownMessage(o) ==
    CASE o.kind = "throw" -> "fetch failed"
      [] o.kind = "badbody" -> "Unexpected token in JSON"
      [] o.kind = "error" -> "provider error message"
      [] OTHER -> ""

\* the message of the route's last catch block
FallbackMessage ==
    [e \in Endpoints |->
        CASE e = "generate-sql" -> "Failed to generate SQL"
          [] e = "explain-sql" -> "Failed to explain SQL"
          [] e = "convert-sql" -> "Failed to convert SQL"
          [] e = "optimize-sql" -> "Failed to optimize SQL"
          [] e = "sql-to-natural" -> "Failed to convert SQL to natural language"
          [] e = "mock-results" -> "Failed to generate mock results"
          [] e = "analyze-performance" -> "Failed to analyze performance"
          [] e = "debug-sql" -> "Failed to debug SQL"
          [] e = "generate-schema" -> "Failed to generate schema"
          [] e = "export-orm" -> "Failed to export to ORM"
          [] e = "image-to-schema" -> "Failed to extract schema from image"
          [] e = "query-suggestions" -> "Failed to generate suggestions"
          [] e = "generate-multi-sql" -> "Failed to generate queries"
          [] OTHER -> "API key validation failed"]

\* the message of the route's 400 answer
RequiredMessage ==
    [e \in Endpoints |->
        CASE e \in {"generate-sql", "generate-multi-sql"} -> "Prompt is required"
          [] e = "convert-sql" -> "SQL and target dialect are required"
          [] e = "debug-sql" -> "SQL query and error message are required"
          [] e = "generate-schema" -> "Description is required"
          [] e = "export-orm" -> "SQL and ORM type are required"
          [] e = "image-to-schema" -> "Image data is required"
          [] e = "query-suggestions" -> "Partial query is required"
          [] OTHER -> "SQL query is required"]

(***************************************************************************)
(* aiProvider.ts: generateContent, up to the fetch it issues               *)
(***************************************************************************)
\* [call]: the provider whose API is fetched, "none" when no fetch is made;
\* [threw]: the message of the Error thrown instead.
generateContent(e) ==
    LET config == getAvailableProvider(e)
    IN  IF config = "null"
            THEN [call |-> "none", threw |-> "No AI API key configured"]
        ELSE CASE config = "gemini" -> [call |-> "gemini", threw |-> ""]
               [] config = "openai" -> [call |-> "openai", threw |-> ""]
               [] config = "anthropic" -> [call |-> "anthropic", threw |-> ""]
               [] config = "groq" -> [call |-> "groq", threw |-> ""]

(***************************************************************************)
(* index.ts: each route from its first line to the awaited outbound call   *)
(***************************************************************************)
Answer(r) == [resp |-> r, call |-> "none"]

CallOut(p) == [resp |-> NoResponse, call |-> p]

\* generate-sql, explain-sql, convert-sql, optimize-sql
ContentPreCall(e, b, en) ==
    IF \E f \in RequiredFields[e] : Missing(b, f)
        THEN Answer(ErrorResponse(400, RequiredMessage[e]))
    ELSE IF e = "generate-sql" /\ b["dialect"] = "nonstring"
        THEN Answer(ErrorResponse(500, "dialect.toUpperCase is not a function"))
    ELSE IF generateContent(en).call = "none"
        THEN Answer(ErrorResponse(500, OrElse(generateContent(en).threw, FallbackMessage[e])))
    ELSE CallOut(generateContent(en).call)

\* GeminiPreCall with the API-key test written before the body test
GeminiPreCall_KeyFirst(e, b, en) ==
    IF en["gemini"] = ""
        THEN Answer(ErrorResponse(500, "Gemini API key not configured"))
    ELSE IF \E f \in RequiredFields[e] : Missing(b, f)
        THEN Answer(ErrorResponse(400, RequiredMessage[e]))
    ELSE IF e = "image-to-schema" /\ b["image"] = "nonstring"
        THEN Answer(ErrorResponse(500, FallbackMessage[e]))
    ELSE IF e = "image-to-schema" /\ b["image"] = "badformat"
        THEN Answer(ErrorResponse(400, "Invalid image format"))
    ELSE IF e = "generate-multi-sql" /\ b["dialect"] = "nonstring"
        THEN Answer(ErrorResponse(500, FallbackMessage[e]))
    ELSE CallOut("gemini")

\* the routes that fetch the Gemini API themselves
GeminiPreCall(e, b, en) ==
    IF \E f \in RequiredFields[e] : Missing(b, f)
        THEN Answer(ErrorResponse(400, RequiredMessage[e]))
    ELSE IF en["gemini"] = ""
        THEN Answer(ErrorResponse(500, "Gemini API key not configured"))
    ELSE IF e = "image-to-schema" /\ b["image"] = "nonstring"
        THEN Answer(ErrorResponse(500, FallbackMessage[e]))
    ELSE IF e = "image-to-schema" /\ b["image"] = "badformat"
        THEN Answer(ErrorResponse(400, "Invalid image format"))
    ELSE IF e = "generate-multi-sql" /\ b["dialect"] = "nonstring"
        THEN Answer(ErrorResponse(500, FallbackMessage[e]))
    ELSE CallOut("gemini")

\* GET /api/ai-status
StatusFields(providerKind) ==
    {<<"configured", "boolean">>, <<"provider", providerKind>>,
     <<"status", "string">>, <<"message", "string">>}

AiStatusPreCall(en) ==
    IF getAvailableProvider(en) = "null"
        THEN Answer(Response(200, StatusFields("null"),
                             <<"error", "No AI API key configured">>))
    ELSE CallOut(generateContent(en).call)

PreCall(e, b, en) ==
    IF e \in ContentEndpoints THEN ContentPreCall(e, b, en)
    ELSE IF e \in GeminiEndpoints THEN GeminiPreCall(e, b, en)
    ELSE AiStatusPreCall(en)

(***************************************************************************)
(* index.ts: each route after the awaited call has produced model text     *)
(***************************************************************************)
\* resultText.substring(0, 500) and result.text.substring(0, 50)
SummaryLimit == 500

TestResponseLimit == 50

ExplainFallbackFields(tipsKind) ==
    {<<"summary", "string">>, <<"sections", "emptylist">>,
     <<"result", "string">>, <<"tips", tipsKind>>}

\* ExplainSqlReply without the inner try/catch and the else branch: a reply
\* that does not parse reaches the route's catch block
ExplainSqlReply_NoFallback(t) ==
    LET jsonMatch == MatchObject(StripJsonFences(t))
        jsonStr   == RepairTrailingCommas(jsonMatch)
    IN  IF jsonMatch # <<>> /\ IsJSONValue(jsonStr)
            THEN Response(200, ObjectFields(jsonStr), jsonStr)
        ELSE ErrorResponse(500, "Failed to explain SQL")

\* POST /api/explain-sql, lines 153-182
ExplainSqlReply(t) ==
    LET jsonMatch == MatchObject(StripJsonFences(t))
        jsonStr   == RepairTrailingCommas(jsonMatch)
    IN  IF jsonMatch # <<>>
            THEN IF IsJSONValue(jsonStr)
                     THEN Response(200, ObjectFields(jsonStr), jsonStr)
                 ELSE Response(200, ExplainFallbackFields("list"),
                               Substring0(t, SummaryLimit))
        ELSE Response(200, ExplainFallbackFields("emptylist"),
                      Substring0(t, SummaryLimit))

\* resultText.match(/~~~sql\s*([\s\S]*?)~~~/i) ||
\* resultText.match(/SELECT[\s\S]*?(?:;|$)/i), then
\* sqlMatch ? sqlMatch[1] || sqlMatch[0] : ''
ExtractSQL(t) ==
    LET opens  == {i \in Positions(t, {"~~~sql"}) :
                      \E j \in Positions(t, FenceTokens) : j > i}
        i1     == SetMin(opens)
        j1     == SetMin({j \in Positions(t, FenceTokens) : j > i1})
        group1 == SubSeq(t, i1 + 1, j1 - 1)
        sels   == Positions(t, {"SELECT"})
        i2     == SetMin(sels)
        semis  == {j \in Positions(t, {";"}) : j > i2}
    IN  IF opens # {}
            THEN IF group1 # <<>> THEN group1 ELSE <<"~~~sql", "~~~">>
        ELSE IF sels # {}
            THEN SubSeq(t, i2, IF semis # {} THEN SetMin(semis) ELSE Len(t))
        ELSE <<>>

OptimizeFallbackFields ==
    {<<"optimizedQuery", "string">>, <<"improvements", "emptylist">>,
     <<"indexes", "emptylist">>, <<"tips", "list">>, <<"summary", "string">>}

\* POST /api/optimize-sql, lines 257-293
OptimizeSqlReply(t) ==
    LET jsonMatch == MatchObject(StripJsonFences(t))
        jsonStr   == RepairTrailingCommas(jsonMatch)
    IN  IF jsonMatch # <<>> /\ IsJSONValue(jsonStr)
            THEN Response(200, ObjectFields(jsonStr), jsonStr)
        ELSE Response(200, OptimizeFallbackFields, ExtractSQL(t))

\* mock-results, analyze-performance, debug-sql: the raw text is matched and
\* parsed without repair; a SyntaxError reaches the route's catch block.
ParsedObjectReply(e, t) ==
    LET jsonMatch == MatchObject(t)
    IN  IF jsonMatch # <<>>
            THEN IF IsJSONValue(jsonMatch)
                     THEN Response(200, ObjectFields(jsonMatch), jsonMatch)
                 ELSE ErrorResponse(500, FallbackMessage[e])
        ELSE ErrorResponse(500,
                CASE e = "mock-results" -> "Failed to parse mock results"
                  [] e = "analyze-performance" -> "Failed to parse performance analysis"
                  [] OTHER -> "Failed to parse debug response")

\* POST /api/image-to-schema, lines 754-761
ImageToSchemaReply(t) ==
    LET cleanSchema == StripSqlFences(t)
    IN  IF cleanSchema = <<>> \/ Positions(cleanSchema, {"notadb"}) # {}
            THEN ErrorResponse(400, "Could not extract schema from this image")
        ELSE Response(200, {<<"schema", "string">>}, cleanSchema)

\* QuerySuggestionsReply without the inner try/catch
QuerySuggestionsReply_NoCatch(t) ==
    LET cleanJson  == StripJsonFences(t)
        arrayMatch == MatchArray(cleanJson)
        jsonStr    == RepairTrailingCommasArr(arrayMatch)
        none       == Response(200, {<<"suggestions", "emptylist">>}, <<>>)
    IN  IF t = <<>> THEN none
        ELSE IF arrayMatch # <<>>
            THEN IF IsJSONValue(jsonStr)
                     THEN Response(200, {<<"suggestions", ValueKind(jsonStr)>>}, jsonStr)
                 ELSE ErrorResponse(500, "Failed to generate suggestions")
        ELSE IF IsJSONValue(cleanJson) THEN none
        ELSE ErrorResponse(500, "Failed to generate suggestions")

\* POST /api/query-suggestions, lines 819-850
QuerySuggestionsReply(t) ==
    LET cleanJson  == StripJsonFences(t)
        arrayMatch == MatchArray(cleanJson)
        jsonStr    == RepairTrailingCommasArr(arrayMatch)
        none       == Response(200, {<<"suggestions", "emptylist">>}, <<>>)
    IN  IF t = <<>> THEN none
        ELSE IF arrayMatch # <<>>
            THEN IF IsJSONValue(jsonStr)
                     THEN Response(200, {<<"suggestions", ValueKind(jsonStr)>>}, jsonStr)
                 ELSE none
        \* JSON.parse(cleanJson) of a text without [...]: a SyntaxError is
        \* caught, and a parsed value is not an array and has no array in it
        ELSE none

\* the queries of the catch block of generate-multi-sql, lines 916-923: one
\* query that carries the text
FallbackQueries(sql) ==
    <<[description |-> "Generated query", sql |-> sql, order |-> 1, dependencies |-> <<>>]>>

\* generate-multi-sql putting the model text as it came into the fallback
GenerateMultiSqlReply_RawText(t) ==
    LET cleanJson == StripJsonFences(t)
    IN  IF IsJSONValue(cleanJson)
            THEN Response(200, {<<"queries", ValueKind(cleanJson)>>}, cleanJson)
        ELSE [status |-> 200, fields |-> {<<"queries", "list">>}, text |-> cleanJson,
              queries |-> FallbackQueries(t)]

\* POST /api/generate-multi-sql, lines 909-925; the fallback body is kept
\* with its elements
GenerateMultiSqlReply(t) ==
    LET cleanJson == StripJsonFences(t)
    IN  IF IsJSONValue(cleanJson)
            THEN Response(200, {<<"queries", ValueKind(cleanJson)>>}, cleanJson)
        ELSE [status |-> 200, fields |-> {<<"queries", "list">>}, text |-> cleanJson,
              queries |-> FallbackQueries(cleanJson)]

TextReply(e, t) ==
    CASE e \in {"generate-sql", "convert-sql"} ->
            Response(200, {<<"sql", "string">>}, StripSqlFences(t))
      [] e = "explain-sql" -> ExplainSqlReply(t)
      [] e = "optimize-sql" -> OptimizeSqlReply(t)
      [] e = "sql-to-natural" -> Response(200, {<<"description", "string">>}, t)
      [] e \in {"mock-results", "analyze-performance", "debug-sql"} ->
            ParsedObjectReply(e, t)
      [] e = "generate-schema" ->
            Response(200, {<<"schema", "string">>}, StripSqlFences(t))
      [] e = "export-orm" -> Response(200, {<<"code", "string">>}, StripAnyFences(t))
      [] e = "image-to-schema" -> ImageToSchemaReply(t)
      [] e = "query-suggestions" -> QuerySuggestionsReply(t)
      [] e = "generate-multi-sql" -> GenerateMultiSqlReply(t)
      [] OTHER ->
            Response(200, StatusFields("string") \cup {<<"testResponse", "string">>},
                     <<"working">> \o Substring0(t, TestResponseLimit))

\* PostCall of routes that never test data.error: an error payload has no
\* candidates, so it is read as the empty model text
PostCall_ErrorUnchecked(e, o) ==
    IF o.kind \in {"text", "error", "errorNoMsg"} THEN TextReply(e, o.text)
    ELSE IF e \in ContentEndpoints
        THEN ErrorResponse(500, OrElse(ThrownMessage(o), FallbackMessage[e]))
    ELSE IF e \in GeminiEndpoints
        THEN ErrorResponse(500, FallbackMessage[e])
    ELSE Response(200, StatusFields("string") \cup {<<"hint", "string">>},
                  <<"error", OrElse(ThrownMessage(o), FallbackMessage[e])>>)

\* the route from the settled call to its response
PostCall(e, o) ==
    IF o.kind = "text" THEN TextReply(e, o.text)
    ELSE IF e \in ContentEndpoints
        \* callGemini ... callGroq throw, the route's catch answers
        THEN ErrorResponse(500, OrElse(ThrownMessage(o), FallbackMessage[e]))
    ELSE IF e \in GeminiEndpoints
        THEN IF o.kind \in {"error", "errorNoMsg"}
                 THEN ErrorResponse(500, ThrownMessage(o))
             ELSE ErrorResponse(500, FallbackMessage[e])
    ELSE Response(200, StatusFields("string") \cup {<<"hint", "string">>},
                  <<"error", OrElse(ThrownMessage(o), FallbackMessage[e])>>)

(***************************************************************************)
(* The gateway as a state machine                                          *)
(***************************************************************************)
\* number of requests that can be in flight together
NumReq == 2

Req == 1..NumReq

VARIABLES
    env,        \* process.env: the four API keys
    pc,         \* per request: "idle", "awaiting" (the fetch is pending),
                \* "settled" (the fetch has settled, the handler has not yet
                \* resumed) or "done" (the response is sent)
    endpoint,   \* per request: its route
    body,       \* per request: req.body
    calls,      \* per request: the providers fetched for it, in order
    outcome,    \* per request: what its awaited call produced
    resp,       \* per request: the response sent last
    sent,       \* per request: how many responses were sent
    history,    \* localStorage['querycraft_history'], parsed
    nextId,     \* the entries created so far
    schemaInput,    \* the schema text handed to the schema parser
    schemaResult,   \* what the schema parser returned for it
    lintRuns,       \* the calls of lintSQL so far: the text and the issues
    typoLastIndex,  \* the lastIndex of the typo patterns lintSQL used last
    sqlVersions,    \* the values the Builder's generatedSQL has had, in order
    exportData,     \* the props of QueryShare: query, sql, dialect, schema
    link,           \* the shared parameter of the link Copy Link produced
    opened,         \* the state of the Builder page that opens the link
    lastCall,       \* the last call of a client function and what it returned
    sampleData,     \* the sampleData list of the schema context
    ui,             \* the useState values of the Builder page
    inflight,       \* per Builder action, the API calls that have not settled
    importDialog    \* the Share Query dialog and the events it dispatched

gatewayVars == <<env, pc, endpoint, body, calls, outcome, resp, sent>>

historyVars == <<history, nextId, lastCall>>

\* the state of the browser-side library functions
clientVars == <<schemaInput, schemaResult, lintRuns, typoLastIndex,
               sqlVersions, exportData, link, opened,
               sampleData, ui, inflight, importDialog>>

\* the schema context, the Builder page and its Share Query dialog
sessionVars == <<sampleData, ui, inflight, importDialog>>

\* the state of the Builder page and of the page a shared link opens
pageVars == <<sqlVersions, exportData, link, opened>>

vars == <<env, pc, endpoint, body, calls, outcome, resp, sent, history, nextId,
          schemaInput, schemaResult, lintRuns, typoLastIndex,
          sqlVersions, exportData, link, opened, lastCall,
          sampleData, ui, inflight, importDialog>>

\* no library function has been called
NotCalled == [called |-> FALSE]

\* the texts of the pages are sequences of UTF-16 code units; the default
\* dialect 'postgresql'
postgresql == <<112, 111, 115, 116, 103, 114, 101, 115, 113, 108>>

\* the useState calls of Builder on a page whose URL has no parameter
\* shared: nothing typed, nothing generated
NewBuilder ==
    [shared |-> <<>>, query |-> <<>>, generatedSQL |-> <<>>, dialect |-> postgresql,
     schemaText |-> <<>>, toast |-> "none"]

\* no link was copied
NoLink == [copied |-> FALSE]

InitPage ==
    /\ sqlVersions = << <<>> >>
    /\ exportData = [query |-> <<>>, sql |-> <<>>, dialect |-> postgresql, schema |-> <<>>]
    /\ link = NoLink
    /\ opened = NewBuilder

\* the actions of the Builder page that call the API
BuilderActions == {"generate", "explain", "convert", "optimize", "run", "export"}

\* the useState calls of Builder for these actions: the loading flag and the
\* displayed result of each
StateOf ==
    [generate |-> [flag |-> "isGenerating", result |-> "generatedSQL"],
     explain  |-> [flag |-> "isExplaining", result |-> "explanation"],
     convert  |-> [flag |-> "isConverting", result |-> "convertedSQL"],
     optimize |-> [flag |-> "isOptimizing", result |-> "optimization"],
     run      |-> [flag |-> "isRunning", result |-> "mockResults"],
     export   |-> [flag |-> "isExporting", result |-> "exportedCode"]]

\* the initial null or "" of a result: the page displays nothing for it
Nothing == [shown |-> FALSE]

NoToast == [kind |-> "none"]

\* the useState calls of Builder
NewUi ==
    [query |-> <<>>,
     isGenerating |-> FALSE, isExplaining |-> FALSE, isConverting |-> FALSE,
     isOptimizing |-> FALSE, isRunning |-> FALSE, isExporting |-> FALSE,
     explanation |-> Nothing, convertedSQL |-> Nothing, optimization |-> Nothing,
     mockResults |-> Nothing, exportedCode |-> Nothing,
     toast |-> NoToast]

\* the useState calls of QueryShare; no loadSharedQuery event was dispatched
NewDialog ==
    [isOpen |-> FALSE, importData |-> <<>>, toast |-> "none", dispatched |-> <<>>]

InitSession ==
    /\ sampleData = <<>>
    /\ ui = NewUi
    /\ inflight = [a \in BuilderActions |-> <<>>]
    /\ importDialog = NewDialog

InitClient ==
    /\ schemaInput = [format |-> "sql", text |-> <<>>]
    /\ schemaResult = NotCalled
    /\ lintRuns = <<>>
    /\ typoLastIndex = <<0, 0, 0, 0, 0>>
    /\ InitPage
    /\ InitSession

InitRequests ==
    /\ pc = [r \in Req |-> "idle"]
    /\ endpoint = [r \in Req |-> "ai-status"]
    /\ body = [r \in Req |-> EmptyBody]
    /\ calls = [r \in Req |-> <<>>]
    /\ outcome = [r \in Req |-> NoOutcome]
    /\ resp = [r \in Req |-> NoResponse]
    /\ sent = [r \in Req |-> 0]

\* no function of the history store has been called
NoCall == [op |-> "none"]

InitHistory ==
    /\ history = <<>>
    /\ nextId = 0
    /\ lastCall = NoCall

Init ==
    /\ env \in Environments
    /\ InitRequests
    /\ InitHistory
    /\ InitClient

\* Express calls the route handler, which runs to its first await that
\* leaves the process (the fetch) or to its response.
HandleRequest(r, e, b) ==
    LET pre == PreCall(e, b, env)
    IN  /\ pc[r] \in {"idle", "done"}
        /\ endpoint' = [endpoint EXCEPT ![r] = e]
        /\ body' = [body EXCEPT ![r] = b]
        /\ outcome' = [outcome EXCEPT ![r] = NoOutcome]
        /\ IF pre.call = "none"
               THEN /\ calls' = [calls EXCEPT ![r] = <<>>]
                    /\ resp' = [resp EXCEPT ![r] = pre.resp]
                    /\ sent' = [sent EXCEPT ![r] = 1]
                    /\ pc' = [pc EXCEPT ![r] = "done"]
               ELSE /\ calls' = [calls EXCEPT ![r] = <<pre.call>>]
                    /\ resp' = [resp EXCEPT ![r] = NoResponse]
                    /\ sent' = [sent EXCEPT ![r] = 0]
                    /\ pc' = [pc EXCEPT ![r] = "awaiting"]
        /\ UNCHANGED <<env, history, nextId, lastCall>>
        /\ UNCHANGED clientVars

\* the provider (or the network) settles the pending fetch of request r
CallSettles(r, o) ==
    /\ pc[r] = "awaiting"
    /\ outcome' = [outcome EXCEPT ![r] = o]
    /\ pc' = [pc EXCEPT ![r] = "settled"]
    /\ UNCHANGED <<env, endpoint, body, calls, resp, sent, history, nextId, lastCall>>
    /\ UNCHANGED clientVars

\* Awaited when the settled result is kept in one module-level variable
Awaited_Shared(r) == outcome[CHOOSE q \in Req : pc[q] = "settled"]

\* const data = await response.json() / const result = await generateContent(..)
Awaited(r) == outcome[r]

\* Resume with one retry of a failed call
Resume_Retry(r) ==
    /\ pc[r] = "settled"
    /\ IF outcome[r].kind # "text" /\ Len(calls[r]) < 2
           THEN /\ calls' = [calls EXCEPT ![r] = Append(@, calls[r][1])]
                /\ pc' = [pc EXCEPT ![r] = "awaiting"]
                /\ UNCHANGED <<resp, sent>>
           ELSE /\ resp' = [resp EXCEPT ![r] = PostCall(endpoint[r], outcome[r])]
                /\ sent' = [sent EXCEPT ![r] = @ + 1]
                /\ pc' = [pc EXCEPT ![r] = "done"]
                /\ UNCHANGED calls
    /\ UNCHANGED <<env, endpoint, body, outcome, history, nextId, lastCall>>
    /\ UNCHANGED clientVars

\* Resume of a handler without catch block: what the awaited call threw is
\* an unhandled rejection and no response is sent
Resume_NoCatch(r) ==
    /\ pc[r] = "settled"
    /\ IF outcome[r].kind \in {"throw", "badbody"}
           THEN UNCHANGED <<resp, sent>>
           ELSE /\ resp' = [resp EXCEPT ![r] = PostCall(endpoint[r], Awaited(r))]
                /\ sent' = [sent EXCEPT ![r] = @ + 1]
    /\ pc' = [pc EXCEPT ![r] = "done"]
    /\ UNCHANGED <<env, endpoint, body, calls, outcome, history, nextId, lastCall>>
    /\ UNCHANGED clientVars

\* the handler of request r resumes after its await and answers
Resume(r) ==
    /\ pc[r] = "settled"
    /\ resp' = [resp EXCEPT ![r] = PostCall(endpoint[r], Awaited(r))]
    /\ sent' = [sent EXCEPT ![r] = @ + 1]
    /\ pc' = [pc EXCEPT ![r] = "done"]
    /\ UNCHANGED <<env, endpoint, body, calls, outcome, history, nextId, lastCall>>
    /\ UNCHANGED clientVars

\* one request at a time, every route, body and provider reply
Request == \E e \in Endpoints : \E b \in Bodies(e) : HandleRequest(1, e, b)

Reply == \E o \in Outcomes : CallSettles(1, o)

Respond == Resume(1)

Next == Request \/ Reply \/ Respond

Spec == Init /\ [][Next]_vars

(***************************************************************************)
(* Requests in flight together: NumReq handlers interleave at their awaits *)
(***************************************************************************)
ConcEndpoints == {"explain-sql", "mock-results"}

ConcOutcomes ==
    {Outcome("throw", <<>>), Outcome("text", <<"word">>), Outcome("text", <<"{", "}">>)}

ConcEnvironments ==
    {[p \in ProviderNames |-> IF p = q THEN "key" ELSE ""] : q \in {"gemini", "openai"}}

InitConc ==
    /\ env \in ConcEnvironments
    /\ InitRequests
    /\ InitHistory
    /\ InitClient

ConcRequest(r) == \E e \in ConcEndpoints : \E b \in Bodies(e) : HandleRequest(r, e, b)

ConcReply(r) == \E o \in ConcOutcomes : CallSettles(r, o)

ConcRespond(r) == Resume(r)

NextConc == \E r \in Req : ConcRequest(r) \/ ConcReply(r) \/ ConcRespond(r)

SpecConc == InitConc /\ [][NextConc]_vars

(***************************************************************************)
(* The query history store (browser localStorage)                          *)
(***************************************************************************)
\* [newItem, ...history].slice(0, 50)
HistoryLimit == 50

\* addToHistory calls made in one run
MaxAdds == 52

\* toggleBookmark and deleteHistoryItem are called with the ids 0..MaxTargetId;
\* no entry has id 0
MaxTargetId == 2

TargetIds == 0..MaxTargetId

Prompts == {"show all users"}

Sqls == {"SELECT * FROM users"}

Dialects == {"postgresql"}

\* the entry addToHistory creates; generateId() and Date.now() give the
\* n-th entry the id and the time stamp n
NewItem(n, prompt, sql, dialect) ==
    [id |-> n, prompt |-> prompt, sql |-> sql, dialect |-> dialect,
     timestamp |-> n, isBookmarked |-> FALSE]

\* Array.prototype.slice(0, n)
Slice0(s, n) == SubSeq(s, 1, Min(Len(s), n))

\* addToHistory without the slice
addToHistory_NoSlice(h, newItem) == <<newItem>> \o h

\* the store after addToHistory(prompt, sql, dialect)
addToHistory(h, newItem) == Slice0(<<newItem>> \o h, HistoryLimit)

IsBookmarked(item) == item.isBookmarked

\* clearHistory removing every entry
clearHistory_All(h) == <<>>

\* the store after clearHistory()
clearHistory(h) == SelectSeq(h, IsBookmarked)

\* the store after deleteHistoryItem(id)
deleteHistoryItem(h, id) == SelectSeq(h, LAMBDA item : item.id # id)

\* history.find(h => h.id === id): the index of the first match, 0 if none
FindIndex(h, id) ==
    IF \E i \in 1..Len(h) : h[i].id = id
        THEN SetMin({i \in 1..Len(h) : h[i].id = id})
    ELSE 0

\* toggleBookmark setting the flag instead of flipping it
toggleBookmark_Set(h, id) ==
    IF FindIndex(h, id) # 0
        THEN [h EXCEPT ![FindIndex(h, id)].isBookmarked = TRUE]
    ELSE h

\* the store after toggleBookmark(id)
toggleBookmark(h, id) ==
    IF FindIndex(h, id) # 0
        THEN [h EXCEPT ![FindIndex(h, id)].isBookmarked = ~@]
    ELSE h

\* what toggleBookmark(id) returns
toggleBookmarkResult(h, id) ==
    IF FindIndex(h, id) # 0 THEN ~h[FindIndex(h, id)].isBookmarked ELSE FALSE

\* getBookmarks()
getBookmarks(h) == SelectSeq(h, IsBookmarked)

AddToHistory ==
    /\ nextId < MaxAdds
    /\ \E prompt \in Prompts, sql \in Sqls, dialect \in Dialects :
          /\ history' = addToHistory(history, NewItem(nextId + 1, prompt, sql, dialect))
          /\ lastCall' = [op |-> "addToHistory",
                          returned |-> NewItem(nextId + 1, prompt, sql, dialect)]
    /\ nextId' = nextId + 1
    /\ UNCHANGED gatewayVars
    /\ UNCHANGED clientVars

ToggleBookmark ==
    /\ \E id \in TargetIds :
          /\ history' = toggleBookmark(history, id)
          /\ lastCall' = [op |-> "toggleBookmark", id |-> id,
                          returned |-> toggleBookmarkResult(history, id)]
    /\ UNCHANGED <<nextId, env, pc, endpoint, body, calls, outcome, resp, sent>>
    /\ UNCHANGED clientVars

DeleteHistoryItem ==
    /\ \E id \in TargetIds :
          /\ history' = deleteHistoryItem(history, id)
          /\ lastCall' = [op |-> "deleteHistoryItem", id |-> id]
    /\ UNCHANGED <<nextId, env, pc, endpoint, body, calls, outcome, resp, sent>>
    /\ UNCHANGED clientVars

ClearHistory ==
    /\ history' = clearHistory(history)
    /\ lastCall' = [op |-> "clearHistory"]
    /\ UNCHANGED <<nextId, env, pc, endpoint, body, calls, outcome, resp, sent>>
    /\ UNCHANGED clientVars

NextHistory == AddToHistory \/ ToggleBookmark \/ DeleteHistoryItem \/ ClearHistory

InitStore ==
    /\ env = [p \in ProviderNames |-> ""]
    /\ InitRequests
    /\ InitHistory
    /\ InitClient

SpecHistory == InitStore /\ [][NextHistory]_vars

(***************************************************************************)
(* Properties of the gateway                                               *)
(***************************************************************************)
HasErrorMessage(rp) == <<"error", "string">> \in rp.fields

FieldNames(rp) == {fk[1] : fk \in rp.fields}

IsList(rp, name) == <<name, "list">> \in rp.fields \/ <<name, "emptylist">> \in rp.fields

IsPrefix(a, b) == Len(a) <= Len(b) /\ SubSeq(b, 1, Len(a)) = a

IsInfix(a, b) == \E i \in 1..(Len(b) + 1) :
                    i + Len(a) - 1 <= Len(b) /\ SubSeq(b, i, i + Len(a) - 1) = a

\* no part of the text is a JSON object or array
NoJSONIn(t) ==
    ~ \E i \in 1..Len(t) : \E j \in (i + 1)..Len(t) :
          t[i] \in Openers /\ IsJSONValue(SubSeq(t, i, j))

\* the routes whose handler parses the model text as JSON
StructuredEndpoints ==
    {"explain-sql", "optimize-sql", "mock-results", "analyze-performance",
     "debug-sql", "query-suggestions", "generate-multi-sql"}

FallbackEndpoints ==
    {"explain-sql", "optimize-sql", "query-suggestions", "generate-multi-sql"}

StrictEndpoints == {"mock-results", "analyze-performance", "debug-sql"}

CallFailed(r) == outcome[r].kind \in {"throw", "badbody", "error", "errorNoMsg"}

\* C1: a POST request whose body lacks a required field is answered with
\* status 400 and an error message, and no provider is called for it,
\* whatever API keys are configured.
C1_MissingFieldIs400 ==
    \A r \in Req :
        (/\ pc[r] # "idle"
         /\ endpoint[r] \in PostEndpoints
         /\ \E f \in RequiredFields[endpoint[r]] : body[r][f] = "absent")
        => (/\ pc[r] = "done"
            /\ resp[r].status = 400
            /\ HasErrorMessage(resp[r])
            /\ sent[r] = 1
            /\ calls[r] = <<>>)

\* C1 witness: debug-sql without its error field, no Gemini key configured
C1_Witness ==
    /\ endpoint[1] = "debug-sql"
    /\ body[1]["sql"] = "ok"
    /\ body[1]["error"] = "absent"
    /\ env["gemini"] = ""
    /\ pc[1] = "done"
    /\ resp[1].status = 400

\* C2 as stated: in every endpoint every failure of the outbound call (the
\* call throws, the provider answers an error payload, the reply fails JSON
\* parsing) is answered with status 500 carrying an error message.
C2_Original ==
    \A r \in Req :
        (/\ pc[r] = "done"
         /\ \/ CallFailed(r)
            \/ /\ outcome[r].kind = "text"
               /\ endpoint[r] \in StructuredEndpoints
               /\ NoJSONIn(outcome[r].text))
        => (resp[r].status = 500 /\ HasErrorMessage(resp[r]))

\* C2 amended: in every POST route a call that throws (network error, reply
\* body that is not JSON) or returns an error payload is answered with
\* status 500; the response carries an error message unless a route that
\* fetches Gemini itself got an error payload without a message.  A model
\* text without JSON is answered with 500 and a message by mock-results,
\* analyze-performance and debug-sql.
C2_CallFailureIs500 ==
    \A r \in Req :
        (pc[r] = "done" /\ endpoint[r] \in PostEndpoints)
        => /\ CallFailed(r)
              => /\ resp[r].status = 500
                 /\ \/ HasErrorMessage(resp[r])
                    \/ (endpoint[r] \in GeminiEndpoints /\ outcome[r].kind = "errorNoMsg")
           /\ (/\ outcome[r].kind = "text"
               /\ endpoint[r] \in StrictEndpoints
               /\ NoJSONIn(outcome[r].text))
              => (resp[r].status = 500 /\ HasErrorMessage(resp[r]))

\* C2 witness: the provider answered convert-sql with an error payload
C2_Witness ==
    /\ endpoint[1] = "convert-sql"
    /\ pc[1] = "done"
    /\ outcome[1].kind = "error"
    /\ resp[1] = ErrorResponse(500, "provider error message")

\* the {...} block explain-sql and optimize-sql extract from the model text
JsonBlock(t) == MatchObject(StripJsonFences(t))

\* C3: when the call succeeds but no {...} block is found in the reply, or
\* the block does not parse after the trailing-comma repair, explain-sql
\* answers 200 with the summary taken from the raw reply and no sections,
\* and optimize-sql answers 200 with an optimizedQuery that is part of the
\* raw reply or empty and with no improvements and no indexes.
C3_UnparsedReplyIs200 ==
    \A r \in Req :
        (/\ pc[r] = "done"
         /\ endpoint[r] \in {"explain-sql", "optimize-sql"}
         /\ outcome[r].kind = "text"
         /\ \/ JsonBlock(outcome[r].text) = <<>>
            \/ ~IsJSONValue(RepairTrailingCommas(JsonBlock(outcome[r].text))))
        => /\ resp[r].status = 200
           /\ sent[r] = 1
           /\ endpoint[r] = "explain-sql"
                => /\ <<"summary", "string">> \in resp[r].fields
                   /\ <<"sections", "emptylist">> \in resp[r].fields
                   /\ IsPrefix(resp[r].text, outcome[r].text)
                   /\ Len(resp[r].text) = Min(Len(outcome[r].text), SummaryLimit)
           /\ endpoint[r] = "optimize-sql"
                => /\ <<"optimizedQuery", "string">> \in resp[r].fields
                   /\ <<"improvements", "emptylist">> \in resp[r].fields
                   /\ <<"indexes", "emptylist">> \in resp[r].fields
                   /\ IsInfix(resp[r].text, outcome[r].text)

\* C3 witness: explain-sql got a block that does not parse even repaired
C3_Witness ==
    /\ endpoint[1] = "explain-sql"
    /\ pc[1] = "done"
    /\ outcome[1] = Outcome("text", <<"{", "summary:", "str", "word", "}">>)
    /\ resp[1].status = 200

\* C4 as stated: each of the seven routes that expect JSON answers a reply
\* without (well-formed) JSON with a structured result, not an error status.
C4_Original ==
    \A r \in Req :
        (/\ pc[r] = "done"
         /\ endpoint[r] \in StructuredEndpoints
         /\ outcome[r].kind = "text"
         /\ NoJSONIn(outcome[r].text))
        => (resp[r].status = 200 /\ ~HasErrorMessage(resp[r]))

\* C4 amended: explain-sql, optimize-sql, query-suggestions and
\* generate-multi-sql answer a reply without (well-formed) JSON with status
\* 200 and a structured result; mock-results, analyze-performance and
\* debug-sql answer it with status 500.
C4_FallbackOrFail ==
    \A r \in Req :
        (/\ pc[r] = "done"
         /\ outcome[r].kind = "text"
         /\ NoJSONIn(outcome[r].text))
        => /\ endpoint[r] \in FallbackEndpoints
                => /\ resp[r].status = 200
                   /\ ~HasErrorMessage(resp[r])
                   /\ resp[r].fields # {}
           /\ endpoint[r] \in StrictEndpoints => resp[r].status = 500

\* C4 witness: query-suggestions got an array that does not parse
C4_Witness ==
    /\ endpoint[1] = "query-suggestions"
    /\ pc[1] = "done"
    /\ outcome[1] = Outcome("text", <<"[", "word", "]">>)
    /\ resp[1] = Response(200, {<<"suggestions", "emptylist">>}, <<>>)

ProviderOrder == <<"gemini", "openai", "anthropic", "groq">>

\* the first provider in ProviderOrder whose key is set, "null" if none is
FirstConfigured(en) ==
    IF \E i \in 1..4 : en[ProviderOrder[i]] # ""
        THEN ProviderOrder[SetMin({i \in 1..4 : en[ProviderOrder[i]] # ""})]
    ELSE "null"

\* the body has every field the route reads as a well-formed string
WellFormed(r) ==
    /\ \A f \in RequiredFields[endpoint[r]] : body[r][f] = "ok"
    /\ body[r]["dialect"] \in {"absent", "ok"}

\* C5 as stated: when at least one provider key is configured, a POST
\* request with all required fields results in a call to the first
\* configured provider and is never answered 'key not configured'.
C5_Original ==
    \A r \in Req :
        (/\ pc[r] # "idle"
         /\ endpoint[r] \in PostEndpoints
         /\ WellFormed(r)
         /\ FirstConfigured(env) # "null")
        => (/\ calls[r] = <<FirstConfigured(env)>>
            /\ resp[r].text # <<"Gemini API key not configured">>)

\* C6: getAvailableProvider returns the first configured provider in the
\* order Gemini, OpenAI, Anthropic, Groq and null exactly when no key is
\* set; a route that calls generateContent fetches that provider only, and
\* with no key it answers 'No AI API key configured' without any fetch.
C6_FirstConfiguredProvider ==
    /\ getAvailableProvider(env) = FirstConfigured(env)
    /\ (getAvailableProvider(env) = "null") <=> (\A p \in ProviderNames : env[p] = "")
    /\ \A r \in Req :
          (pc[r] # "idle" /\ endpoint[r] \in ContentEndpoints \cup {"ai-status"})
          => /\ \A i \in 1..Len(calls[r]) : calls[r][i] = FirstConfigured(env)
             /\ (FirstConfigured(env) # "null" /\ WellFormed(r))
                  => calls[r] = <<FirstConfigured(env)>>
             /\ (FirstConfigured(env) = "null" /\ WellFormed(r)
                   /\ endpoint[r] \in ContentEndpoints)
                  => /\ calls[r] = <<>>
                     /\ resp[r] = ErrorResponse(500, "No AI API key configured")

\* C6 witness: only the Anthropic and Groq keys are set, and generate-sql
\* is waiting for Anthropic
C6_Witness ==
    /\ env = [p \in ProviderNames |-> IF p \in {"anthropic", "groq"} THEN "key" ELSE ""]
    /\ endpoint[1] = "generate-sql"
    /\ pc[1] = "awaiting"
    /\ calls[1] = <<"anthropic">>

\* C7: one request makes at most one outbound call; after a failed call
\* the handler answers and issues no second call.
C7_AtMostOneCall ==
    \A r \in Req :
        /\ Len(calls[r]) <= 1
        /\ (pc[r] = "done" /\ CallFailed(r)) => (Len(calls[r]) = 1 /\ sent[r] = 1)

\* C7 witness: the call of optimize-sql threw and the request is answered
C7_Witness ==
    /\ endpoint[1] = "optimize-sql"
    /\ pc[1] = "done"
    /\ outcome[1].kind = "throw"
    /\ resp[1].status = 500
    /\ Len(calls[1]) = 1

\* C8: requests in flight together are independent: requests with the same
\* route, body and provider reply get the same response under the same API
\* keys, whatever the other requests did in between, and a request that is
\* not answered yet has no response.
C8_RequestsIndependent ==
    \A r1 \in Req : \A r2 \in Req :
        /\ (/\ pc[r1] = "done"
            /\ pc[r2] = "done"
            /\ endpoint[r1] = endpoint[r2]
            /\ body[r1] = body[r2]
            /\ outcome[r1] = outcome[r2])
           => resp[r1] = resp[r2]
        /\ pc[r1] \in {"awaiting", "settled"} => resp[r1] = NoResponse

\* C8 witness: two requests to one route were in flight together and got
\* different replies and different responses
C8_Witness ==
    /\ pc[1] = "done"
    /\ pc[2] = "settled"
    /\ endpoint[1] = "explain-sql"
    /\ endpoint[2] = "explain-sql"
    /\ outcome[1] = Outcome("text", <<"word">>)
    /\ outcome[2] = Outcome("throw", <<>>)
    /\ resp[1].status = 200

(***************************************************************************)
(* Properties of the history store                                         *)
(***************************************************************************)
\* C9: the store never holds more than 50 entries; addToHistory puts the
\* new entry first, keeps the older entries in order behind it and, when
\* the store already holds 50, drops the last one.
C9_HistoryCapped ==
    [][/\ Len(history') <= 50
       /\ nextId' # nextId
            => /\ history'[1].id = nextId'
               /\ Tail(history') =
                    (IF Len(history) = 50 THEN SubSeq(history, 1, 49) ELSE history)]_vars

\* C9 witness: an entry was added to a full store
C9_Witness ==
    /\ nextId > 50
    /\ Len(history) = 50
    /\ history[1].id = nextId
    /\ history[50].id = nextId - 49

\* C10 as stated: every status-200 response of explain-sql has the fields
\* summary, sections (a list), result and tips (a list).
C10_Original ==
    \A r \in Req :
        (pc[r] = "done" /\ endpoint[r] = "explain-sql" /\ resp[r].status = 200)
        => /\ {"summary", "result"} \subseteq FieldNames(resp[r])
           /\ IsList(resp[r], "sections")
           /\ IsList(resp[r], "tips")

(***************************************************************************)
(* The schema parser (src/lib/sqlParser.ts)                                *)
(* A schema text is the sequence of its tokens: words (\w+) and the marks  *)
(* "(", ")", "," and ";". White space separates two words and is not a     *)
(* token; identifiers are written without quotes.                          *)
(***************************************************************************)
Punctuation == {"(", ")", ",", ";"}

IsWord(t) == t \notin Punctuation

\* the words of the modelled texts that String.prototype.toUpperCase (or the
\* flag i of a pattern) changes
UpperCased ==
    "create" :> "CREATE" @@ "table" :> "TABLE" @@ "varchar" :> "VARCHAR" @@
    "integer" :> "INTEGER" @@ "primary" :> "PRIMARY" @@ "key" :> "KEY" @@
    "t" :> "T" @@ "users" :> "USERS" @@ "orders" :> "ORDERS" @@ "id" :> "ID" @@
    "name" :> "NAME" @@ "user_id" :> "USER_ID" @@ "total" :> "TOTAL" @@
    "unique_code" :> "UNIQUE_CODE" @@ "fk_user" :> "FK_USER" @@
    "select" :> "SELECT" @@ "from" :> "FROM" @@ "where" :> "WHERE" @@
    "delete" :> "DELETE" @@ "slect" :> "SLECT" @@ "somewhere" :> "SOMEWHERE" @@
    "platform" :> "PLATFORM" @@ "u.id" :> "U.ID" @@ "o.user_id" :> "O.USER_ID" @@
    "u" :> "U" @@ "o" :> "O" @@ "status" :> "STATUS" @@ "email" :> "EMAIL" @@
    "and" :> "AND" @@ "as" :> "AS" @@ "left" :> "LEFT" @@ "join" :> "JOIN" @@
    "order" :> "ORDER" @@ "by" :> "BY" @@ "a" :> "A" @@ "b" :> "B" @@ "on" :> "ON" @@
    "or" :> "OR"

toUpperCase(t) == IF t \in DOMAIN UpperCased THEN UpperCased[t] ELSE t

\* the token t is the keyword kw, in any case (flag i)
Is(t, kw) == toUpperCase(t) = kw

\* String.prototype.split(sep), on tokens
RECURSIVE Split(_, _)
Split(s, sep) ==
    IF Positions(s, {sep}) = {}
        THEN <<s>>
        ELSE LET i == SetMin(Positions(s, {sep}))
             IN  <<SubSeq(s, 1, i - 1)>> \o Split(SubSeq(s, i + 1, Len(s)), sep)

\* the lazy group ([\s\S]*?) followed by \); ends at the first ")" that a
\* ";" follows, at or after position from (0: there is none)
BlockEnd(s, from) ==
    LET K == {k \in from..(Len(s) - 1) : s[k] = ")" /\ s[k + 1] = ";"}
    IN  IF K = {} THEN 0 ELSE SetMin(K)

\* where the table name stands in a match of tableRegex that starts at i
NameAt(s, i) ==
    IF /\ i + 4 <= Len(s)
       /\ Is(s[i + 2], "IF") /\ Is(s[i + 3], "NOT") /\ Is(s[i + 4], "EXISTS")
        THEN i + 5
        ELSE i + 2

\* tableRegex matches at position i:
\* /CREATE\s+TABLE\s+(?:IF\s+NOT\s+EXISTS\s+)?(\w+)\s*\(([\s\S]*?)\);/gi
TableAt(s, i) ==
    /\ i + 1 <= Len(s)
    /\ Is(s[i], "CREATE") /\ Is(s[i + 1], "TABLE")
    /\ NameAt(s, i) + 1 <= Len(s)
    /\ IsWord(s[NameAt(s, i)])
    /\ s[NameAt(s, i) + 1] = "("
    /\ BlockEnd(s, NameAt(s, i) + 2) # 0

\* the loop while ((match = tableRegex.exec(sql)) !== null): the matches
\* from position from on, each with match[1] and match[2]
RECURSIVE TableMatches(_, _)
TableMatches(s, from) ==
    LET starts == {i \in from..Len(s) : TableAt(s, i)}
    IN  IF starts = {}
            THEN <<>>
            ELSE LET i == SetMin(starts)
                     n == NameAt(s, i)
                     k == BlockEnd(s, n + 2)
                 IN  <<[tableName |-> s[n], columnsBlock |-> SubSeq(s, n + 2, k - 1)]>>
                         \o TableMatches(s, k + 2)

\* columnsBlock.split(',').map(line => line.trim()).filter(line => line)
BlockLines(columnsBlock) == SelectSeq(Split(columnsBlock, ","), LAMBDA l : l # <<>>)

\* words that begin with UNIQUE, CHECK or CONSTRAINT, in any case
StartsWithConstraintWord(t) ==
    toUpperCase(t) \in {"UNIQUE", "CHECK", "CONSTRAINT", "UNIQUE_CODE"}

\* /^\s*(PRIMARY\s+KEY|FOREIGN\s+KEY|UNIQUE|CHECK|CONSTRAINT)/i.test(line)
IsConstraintLine(line) ==
    \/ /\ Len(line) >= 2
       /\ toUpperCase(line[1]) \in {"PRIMARY", "FOREIGN"}
       /\ Is(line[2], "KEY")
    \/ StartsWithConstraintWord(line[1])

\* /REFERENCES\s+(\w+)\s*\((\w+)\)/i matches at position i of the line
ReferencesAt(line, i) ==
    /\ i + 4 <= Len(line)
    /\ Is(line[i], "REFERENCES")
    /\ IsWord(line[i + 1]) /\ line[i + 2] = "("
    /\ IsWord(line[i + 3]) /\ line[i + 4] = ")"

\* /FOREIGN\s+KEY\s*\((\w+)\)\s*REFERENCES\s+(\w+)\s*\((\w+)\)/i at position i
ForeignKeyAt(line, i) ==
    /\ i + 9 <= Len(line)
    /\ Is(line[i], "FOREIGN") /\ Is(line[i + 1], "KEY")
    /\ line[i + 2] = "(" /\ IsWord(line[i + 3]) /\ line[i + 4] = ")"
    /\ ReferencesAt(line, i + 5)

\* line.match(/FOREIGN KEY ... REFERENCES .../i): the first match, if any
fkMatch(line) ==
    LET I == {i \in 1..Len(line) : ForeignKeyAt(line, i)}
    IN  IF I = {}
            THEN [found |-> FALSE, fromColumn |-> "", toTable |-> "", toColumn |-> ""]
            ELSE LET i == SetMin(I)
                 IN  [found |-> TRUE, fromColumn |-> line[i + 3],
                      toTable |-> line[i + 6], toColumn |-> line[i + 8]]

\* line.match(/REFERENCES ... (...)/i) of a column line
refMatch(line) ==
    LET I == {i \in 1..Len(line) : ReferencesAt(line, i)}
    IN  IF I = {}
            THEN [found |-> FALSE, toTable |-> "", toColumn |-> ""]
            ELSE LET i == SetMin(I)
                 IN  [found |-> TRUE, toTable |-> line[i + 1], toColumn |-> line[i + 3]]

\* the second group of colMatch, (\w+(?:\([^)]+\))?): the type word and,
\* when a "(" follows it and a ")" closes a non-empty argument, the argument
TypeEnd(line) ==
    LET K == {k \in 4..Len(line) : line[k] = ")"}
    IN  IF Len(line) >= 3 /\ line[3] = "(" /\ K # {} /\ SetMin(K) >= 5
            THEN SetMin(K)
            ELSE 2

\* line.match(/^(\w+)\s+(\w+(?:\([^)]+\))?)/i)
colMatch(line) ==
    IF Len(line) >= 2 /\ IsWord(line[1]) /\ IsWord(line[2])
        THEN [found |-> TRUE, colName |-> line[1], colType |-> SubSeq(line, 2, TypeEnd(line))]
        ELSE [found |-> FALSE, colName |-> "", colType |-> <<>>]

\* /PRIMARY\s+KEY/i.test(line)
HasPrimaryKey(line) ==
    \E i \in 1..(Len(line) - 1) : Is(line[i], "PRIMARY") /\ Is(line[i + 1], "KEY")

\* /REFERENCES/i.test(line)
HasReferences(line) == \E i \in 1..Len(line) : Is(line[i], "REFERENCES")

\* a column without the optional member references
Column(name, type, isPrimaryKey, isForeignKey) ==
    [name |-> name, type |-> type, isPrimaryKey |-> isPrimaryKey,
     isForeignKey |-> isForeignKey, references |-> <<>>]

Reference(table, column) == <<[table |-> table, column |-> column]>>

Relationship(fromTable, fromColumn, toTable, toColumn) ==
    [fromTable |-> fromTable, fromColumn |-> fromColumn,
     toTable |-> toTable, toColumn |-> toColumn]

\* columns.find(c => c.name === fromColumn), then the two assignments
MarkForeignKey(columns, fromColumn, toTable, toColumn) ==
    LET I == {i \in 1..Len(columns) : columns[i].name = fromColumn}
    IN  IF I = {}
            THEN columns
            ELSE [columns EXCEPT ![SetMin(I)] =
                     [@ EXCEPT !.isForeignKey = TRUE,
                               !.references = Reference(toTable, toColumn)]]

\* one turn of the loop for (const line of lines), on the columns of the
\* table and the relationships collected so far
ParseLine(acc, tableName, line) ==
    IF IsConstraintLine(line)
        THEN LET fk == fkMatch(line)
             IN  IF fk.found
                     THEN [columns |-> MarkForeignKey(acc.columns, fk.fromColumn,
                                                      fk.toTable, fk.toColumn),
                           relationships |-> Append(acc.relationships,
                               Relationship(tableName, fk.fromColumn, fk.toTable, fk.toColumn))]
                     ELSE acc
        ELSE LET col == colMatch(line)
                 ref == refMatch(line)
                 column == Column(col.colName,
                                  [i \in 1..Len(col.colType) |-> toUpperCase(col.colType[i])],
                                  HasPrimaryKey(line), HasReferences(line))
             IN  IF ~col.found
                     THEN acc
                     ELSE IF HasReferences(line) /\ ref.found
                         THEN [columns |-> Append(acc.columns,
                                   [column EXCEPT !.references =
                                       Reference(ref.toTable, ref.toColumn)]),
                               relationships |-> Append(acc.relationships,
                                   Relationship(tableName, col.colName,
                                                ref.toTable, ref.toColumn))]
                         ELSE [columns |-> Append(acc.columns, column),
                               relationships |-> acc.relationships]

RECURSIVE ParseLines(_, _, _)
ParseLines(acc, tableName, lines) ==
    IF lines = <<>>
        THEN acc
        ELSE ParseLines(ParseLine(acc, tableName, Head(lines)), tableName, Tail(lines))

RECURSIVE ParseTables(_, _)
ParseTables(acc, matches) ==
    IF matches = <<>>
        THEN acc
        ELSE LET m == Head(matches)
                 t == ParseLines([columns |-> <<>>, relationships |-> acc.relationships],
                                 m.tableName, BlockLines(m.columnsBlock))
             IN  ParseTables([tables |-> Append(acc.tables,
                                   [name |-> m.tableName, columns |-> t.columns]),
                              relationships |-> t.relationships],
                             Tail(matches))

\* parseSQLSchema(sql)
parseSQLSchema(sql) ==
    ParseTables([tables |-> <<>>, relationships |-> <<>>], TableMatches(sql, 1))

(***************************************************************************)
(* parseJSONSchema. A JSON text is the sequence of its tokens: the marks   *)
(* { } [ ] and "," , a member name with its colon ("tables:"), the         *)
(* literals null, true, false and 5, and string literals, written as their *)
(* content ('' is the empty string literal).                               *)
(***************************************************************************)
SchemaKeyName ==
    ( "tables:" :> "tables" @@ "name:" :> "name" @@ "columns:" :> "columns" @@
      "type:" :> "type" @@ "primaryKey:" :> "primaryKey" @@
      "isPrimaryKey:" :> "isPrimaryKey" @@ "foreignKey:" :> "foreignKey" @@
      "isForeignKey:" :> "isForeignKey" @@ "references:" :> "references" @@
      "table:" :> "table" @@ "column:" :> "column" )

SchemaKeyTokens == DOMAIN SchemaKeyName

\* JavaScript values
Undefined == [kind |-> "undefined"]

Null == [kind |-> "null"]

Bool(b) == [kind |-> "boolean", value |-> b]

Number(n) == [kind |-> "number", value |-> n]

String(s) == [kind |-> "string", value |-> s]

Array(items) == [kind |-> "array", items |-> items]

Object(members) == [kind |-> "object", members |-> members]

\* JSON.parse throws SyntaxError
SyntaxError == [kind |-> "SyntaxError"]

\* the value of a one-token JSON text
Literal(t) ==
    IF t \in Openers \cup Closers \cup {","} \cup SchemaKeyTokens THEN SyntaxError
    ELSE IF t = "null" THEN Null
    ELSE IF t = "true" THEN Bool(TRUE)
    ELSE IF t = "false" THEN Bool(FALSE)
    ELSE IF t = "5" THEN Number(5)
    ELSE IF t = "''" THEN String("")
    ELSE String(t)

\* JSON.parse(json)
RECURSIVE JSONParse(_)
JSONParse(s) ==
    IF Len(s) = 0 THEN SyntaxError
    ELSE IF Len(s) = 1 THEN Literal(s[1])
    ELSE IF s[1] = "[" /\ s[Len(s)] = "]"
        THEN IF Len(s) = 2 THEN Array(<<>>)
             ELSE LET items == [k \in 1..NumSegs(Inner(s)) |-> JSONParse(SegAt(Inner(s), k))]
                  IN  IF \E k \in DOMAIN items : items[k] = SyntaxError
                          THEN SyntaxError
                          ELSE Array(items)
    ELSE IF s[1] = "{" /\ s[Len(s)] = "}"
        THEN IF Len(s) = 2 THEN Object(<<>>)
             ELSE LET n == NumSegs(Inner(s))
                      seg(k) == SegAt(Inner(s), k)
                      \* a repeated name keeps its last value
                      last(name) == CHOOSE k \in 1..n :
                          /\ SchemaKeyName[seg(k)[1]] = name
                          /\ \A j \in (k + 1)..n : SchemaKeyName[seg(j)[1]] # name
                  IN  IF \E k \in 1..n :
                             \/ Len(seg(k)) < 2
                             \/ seg(k)[1] \notin SchemaKeyTokens
                             \/ JSONParse(Tail(seg(k))) = SyntaxError
                          THEN SyntaxError
                          ELSE Object([name \in {SchemaKeyName[seg(k)[1]] : k \in 1..n} |->
                                          JSONParse(Tail(seg(last(name))))])
    ELSE SyntaxError

\* v.name: the member, or undefined (v is neither null nor undefined)
Get(v, name) ==
    IF v.kind = "object" /\ name \in DOMAIN v.members THEN v.members[name] ELSE Undefined

\* reading a property of null or undefined throws TypeError
Nullish(v) == v.kind \in {"null", "undefined"}

\* ToBoolean(v)
Truthy(v) ==
    CASE v.kind \in {"null", "undefined"} -> FALSE
      [] v.kind = "boolean" -> v.value
      [] v.kind = "number" -> v.value # 0
      [] v.kind = "string" -> v.value # ""
      [] OTHER -> TRUE

\* a || b
OrValue(a, b) == IF Truthy(a) THEN a ELSE b

\* col.type?.toUpperCase() throws TypeError: col.type is neither nullish
\* nor a string
TypeThrows(col) == Get(col, "type").kind \notin {"null", "undefined", "string"}

\* the body of for (const col of ...) throws
ColumnThrows(col) == Nullish(col) \/ TypeThrows(col)

\* the value iterated by for (const col of table.columns || [])
ColumnsOf(table) == OrValue(Get(table, "columns"), Array(<<>>))

\* the body of for (const table of data.tables) throws: table is nullish,
\* table.columns is truthy and not an array (a number, true or an object is
\* not iterable; string values of columns are not among the modelled
\* documents), or a column throws
TableThrows(table) ==
    \/ Nullish(table)
    \/ ColumnsOf(table).kind # "array"
    \/ \E i \in DOMAIN ColumnsOf(table).items : ColumnThrows(ColumnsOf(table).items[i])

\* the try block throws: JSON.parse does, data is null, or a table throws
TryThrows(data) ==
    \/ data = SyntaxError
    \/ Nullish(data)
    \/ /\ Get(data, "tables").kind = "array"
       /\ \E i \in DOMAIN Get(data, "tables").items : TableThrows(Get(data, "tables").items[i])

\* const column = {...} of parseJSONSchema, references included
JsonColumn(col) ==
    [name |-> Get(col, "name"),
     type |-> IF Truthy(Get(col, "type")) THEN toUpperCase(Get(col, "type").value)
              ELSE "VARCHAR",
     isPrimaryKey |-> OrValue(Get(col, "primaryKey"),
                              OrValue(Get(col, "isPrimaryKey"), Bool(FALSE))),
     isForeignKey |-> OrValue(Get(col, "foreignKey"),
                              OrValue(Get(col, "isForeignKey"), Bool(FALSE))),
     references |-> IF Truthy(Get(col, "references")) THEN <<Get(col, "references")>>
                    ELSE <<>>]

JsonTable(table) ==
    [name |-> Get(table, "name"),
     columns |-> [i \in DOMAIN ColumnsOf(table).items |->
                     JsonColumn(ColumnsOf(table).items[i])]]

\* the edges pushed for the columns of one table, in order
JsonEdges(table) ==
    LET cols == ColumnsOf(table).items
        refs == SelectSeq(cols, LAMBDA col : Truthy(Get(col, "references")))
    IN  [i \in DOMAIN refs |->
            [fromTable |-> Get(table, "name"),
             fromColumn |-> Get(refs[i], "name"),
             toTable |-> Get(Get(refs[i], "references"), "table"),
             toColumn |-> Get(Get(refs[i], "references"), "column")]]

RECURSIVE Concat(_)
Concat(ss) == IF ss = <<>> THEN <<>> ELSE Head(ss) \o Concat(Tail(ss))

\* what the try block returns when nothing throws
TryValue(data) ==
    IF Get(data, "tables").kind = "array"
        THEN LET ts == Get(data, "tables").items
             IN  [tables |-> [i \in DOMAIN ts |-> JsonTable(ts[i])],
                  relationships |-> Concat([i \in DOMAIN ts |-> JsonEdges(ts[i])])]
        ELSE [tables |-> <<>>, relationships |-> <<>>]

EmptySchema == [tables |-> <<>>, relationships |-> <<>>]

\* a call that threw
Threw == [called |-> TRUE, threw |-> TRUE, value |-> EmptySchema]

\* the result of a call that returned
Returned(value) == [called |-> TRUE, threw |-> FALSE, value |-> value]

\* parseJSONSchema without the catch clause
parseJSONSchema_NoCatch(json) ==
    IF TryThrows(JSONParse(json)) THEN Threw ELSE Returned(TryValue(JSONParse(json)))

\* parseJSONSchema(json): try { ... } catch { return { tables: [], relationships: [] } }
parseJSONSchema(json) ==
    IF TryThrows(JSONParse(json))
        THEN Returned(EmptySchema)
        ELSE Returned(TryValue(JSONParse(json)))

(***************************************************************************)
(* The schema texts the parser is applied to                               *)
(***************************************************************************)
\* the most lines in the body of a generated CREATE TABLE statement
MaxLines == 3

\* column definitions and table constraints, as they are written between
\* the commas of a CREATE TABLE body
SchemaLines ==
    {<<"id", "INTEGER", "PRIMARY", "KEY">>,
     <<"name", "varchar", "(", "255", ")", "NOT", "NULL">>,
     <<"total", "DECIMAL", "(", "10", ",", "2", ")">>,
     <<"user_id", "INTEGER">>,
     <<"unique_code", "VARCHAR", "(", "50", ")">>,
     <<"user_id", "INTEGER", "REFERENCES", "users", "(", "id", ")">>,
     <<"FOREIGN", "KEY", "(", "user_id", ")", "REFERENCES", "users", "(", "id", ")">>,
     <<"CONSTRAINT", "fk_user", "FOREIGN", "KEY", "(", "user_id", ")",
       "REFERENCES", "users", "(", "id", ")">>,
     <<"PRIMARY", "KEY", "(", "id", ")">>}

\* the lines joined with commas
RECURSIVE JoinLines(_)
JoinLines(ls) ==
    IF Len(ls) = 0 THEN <<>>
    ELSE IF Len(ls) = 1 THEN ls[1]
    ELSE ls[1] \o <<",">> \o JoinLines(Tail(ls))

CreateTable(name, ls) == <<"CREATE", "TABLE", name, "(">> \o JoinLines(ls) \o <<")", ";">>

\* const exampleSQL of the schema uploader
exampleSQL ==
    CreateTable("users", << <<"id", "INTEGER", "PRIMARY", "KEY">>,
                            <<"name", "VARCHAR", "(", "255", ")", "NOT", "NULL">>,
                            <<"email", "VARCHAR", "(", "255", ")", "UNIQUE">>,
                            <<"created_at", "TIMESTAMP", "DEFAULT", "CURRENT_TIMESTAMP">> >>)
    \o CreateTable("orders", << <<"id", "INTEGER", "PRIMARY", "KEY">>,
                                <<"user_id", "INTEGER">>,
                                <<"total", "DECIMAL", "(", "10", ",", "2", ")">>,
                                <<"order_date", "TIMESTAMP">>,
                                <<"FOREIGN", "KEY", "(", "user_id", ")",
                                  "REFERENCES", "users", "(", "id", ")">> >>)

\* texts that are no complete CREATE TABLE statement, and other shapes
OtherSqlTexts ==
    {<<>>,
     <<"SELECT", "1", ";">>,
     <<"CREATE", "TABLE", "t", "(", "id", "INTEGER", ")">>,
     <<"CREATE", "TABLE", "t", "(", "id", "INTEGER">>,
     <<"CREATE", "TABLE", "(", "id", "INTEGER", ")", ";">>,
     <<"CREATE", "TABLE", "t", "(", ")", ";">>,
     <<"CREATE", "TABLE", "t", "(", ",", "(", ")", ",", "id", ")", ";">>,
     <<"create", "table", "IF", "NOT", "EXISTS", "t", "(", "id", "integer", ")", ";">>,
     exampleSQL}

GeneratedSqlTexts ==
    {CreateTable("t", ls) : ls \in UNION {[1..n -> SchemaLines] : n \in 1..MaxLines}}

SqlTexts == GeneratedSqlTexts \cup OtherSqlTexts

\* a document shaped like exampleJSON of the schema uploader, and others
JsonTexts ==
    {<<"{", "tables:", "[", "{", "name:", "users", ",", "columns:", "[",
         "{", "name:", "id", ",", "type:", "integer", ",", "primaryKey:", "true", "}", ",",
         "{", "name:", "user_id", ",", "references:",
              "{", "table:", "users", ",", "column:", "id", "}", "}",
       "]", "}", "]", "}">>,
     <<>>,
     <<"{">>,
     <<"{", "tables:", "}">>,
     <<"[", "users", ",", "]">>,
     <<"users", "orders">>,
     <<"null">>,
     <<"5">>,
     <<"users">>,
     <<"[", "]">>,
     <<"{", "}">>,
     <<"{", "tables:", "users", "}">>,
     <<"{", "tables:", "[", "]", "}">>,
     <<"{", "tables:", "[", "null", "]", "}">>,
     <<"{", "tables:", "[", "5", "]", "}">>,
     <<"{", "tables:", "[", "{", "name:", "users", "}", "]", "}">>,
     <<"{", "tables:", "[", "{", "columns:", "5", "}", "]", "}">>,
     <<"{", "tables:", "[", "{", "columns:", "null", "}", "]", "}">>,
     <<"{", "tables:", "[", "{", "columns:", "[", "null", "]", "}", "]", "}">>,
     <<"{", "tables:", "[", "{", "columns:", "[", "id", "]", "}", "]", "}">>,
     <<"{", "tables:", "[", "{", "columns:", "[", "{", "type:", "5", "}", "]", "}", "]", "}">>,
     <<"{", "tables:", "[", "{", "columns:", "[", "{", "type:", "''", "}", "]", "}", "]", "}">>,
     <<"{", "tables:", "[", "{", "columns:", "[", "{", "name:", "id", ",", "references:", "users", "}",
         "]", "}", "]", "}">>}

SchemaInputs ==
    {[format |-> "sql", text |-> t] : t \in SqlTexts}
        \cup {[format |-> "json", text |-> t] : t \in JsonTexts}

InitParser ==
    /\ env = [p \in ProviderNames |-> ""]
    /\ InitRequests
    /\ InitHistory
    /\ schemaInput \in SchemaInputs
    /\ schemaResult = NotCalled
    /\ lintRuns = <<>>
    /\ typoLastIndex = <<0, 0, 0, 0, 0>>
    /\ InitPage
    /\ InitSession

ParseSQLSchema ==
    /\ schemaInput.format = "sql"
    /\ schemaResult = NotCalled
    /\ schemaResult' = Returned(parseSQLSchema(schemaInput.text))
    /\ UNCHANGED <<gatewayVars, historyVars, schemaInput, lintRuns, typoLastIndex, pageVars, sessionVars>>

ParseJSONSchema ==
    /\ schemaInput.format = "json"
    /\ schemaResult = NotCalled
    /\ schemaResult' = parseJSONSchema(schemaInput.text)
    /\ UNCHANGED <<gatewayVars, historyVars, schemaInput, lintRuns, typoLastIndex, pageVars, sessionVars>>

NextParser == ParseSQLSchema \/ ParseJSONSchema

SpecParser == InitParser /\ [][NextParser]_vars

(***************************************************************************)
(* Properties of the schema parser                                         *)
(***************************************************************************)
\* how many parentheses are open before position i of s
ParenDepth(s, i) ==
    Cardinality({j \in 1..(i - 1) : s[j] = "("}) - Cardinality({j \in 1..(i - 1) : s[j] = ")"})

\* the parts of a CREATE TABLE body between its commas outside parentheses
RECURSIVE Definitions(_)
Definitions(block) ==
    LET C == {i \in 1..Len(block) : block[i] = "," /\ ParenDepth(block, i) = 0}
    IN  IF C = {}
            THEN <<block>>
            ELSE <<SubSeq(block, 1, SetMin(C) - 1)>>
                     \o Definitions(SubSeq(block, SetMin(C) + 1, Len(block)))

\* the text is one statement CREATE TABLE t ( block ) ;
IsCreateTable(s) ==
    /\ Len(s) >= 6
    /\ s[1] = "CREATE" /\ s[2] = "TABLE" /\ IsWord(s[3]) /\ s[4] = "("
    /\ s[Len(s) - 1] = ")" /\ s[Len(s)] = ";"
    /\ Positions(SubSeq(s, 5, Len(s) - 2), {";"}) = {}
    /\ ParenDepth(SubSeq(s, 5, Len(s) - 2), Len(s) - 5) = 0

BlockOf(s) == SubSeq(s, 5, Len(s) - 2)

ConstraintKeywords == {"PRIMARY", "FOREIGN", "UNIQUE", "CHECK", "CONSTRAINT"}

\* a definition of the form name type [modifiers]
IsColumnDefinition(d) ==
    /\ Len(d) >= 2
    /\ IsWord(d[1]) /\ IsWord(d[2])
    /\ toUpperCase(d[1]) \notin ConstraintKeywords

\* the declared type of a column definition: the word after the name with
\* its parenthesised arguments
DeclaredType(d) ==
    LET K == {k \in 4..Len(d) : d[k] = ")" /\ ParenDepth(d, k + 1) = 0}
    IN  IF Len(d) >= 3 /\ d[3] = "(" /\ K # {}
            THEN SubSeq(d, 2, SetMin(K))
            ELSE <<d[2]>>

\* the schema parser was applied to a text and returned
ParsedSql == schemaInput.format = "sql" /\ schemaResult.called /\ ~schemaResult.threw

\* C11: for one statement CREATE TABLE t (...); whose body is a list of
\* column definitions, the parser returns exactly one table named t with
\* one column per definition, in source order, and a column is flagged
\* isPrimaryKey exactly when its own definition contains PRIMARY KEY
C11_Original ==
    (/\ ParsedSql
     /\ IsCreateTable(schemaInput.text)
     /\ \A i \in DOMAIN Definitions(BlockOf(schemaInput.text)) :
            IsColumnDefinition(Definitions(BlockOf(schemaInput.text))[i]))
    => LET defs == Definitions(BlockOf(schemaInput.text))
           tables == schemaResult.value.tables
       IN  /\ Len(tables) = 1
           /\ tables[1].name = schemaInput.text[3]
           /\ Len(tables[1].columns) = Len(defs)
           /\ \A i \in 1..Len(defs) :
                  /\ tables[1].columns[i].name = defs[i][1]
                  /\ tables[1].columns[i].isPrimaryKey = HasPrimaryKey(defs[i])

\* the table constraint FOREIGN KEY (c) REFERENCES u(d)
IsForeignKeyLine(d) ==
    /\ Len(d) = 10
    /\ SubSeq(d, 1, 3) = <<"FOREIGN", "KEY", "(">> /\ IsWord(d[4])
    /\ SubSeq(d, 5, 6) = <<")", "REFERENCES">> /\ IsWord(d[7])
    /\ d[8] = "(" /\ IsWord(d[9]) /\ d[10] = ")"

\* C12: when the body of CREATE TABLE t defines a column c and contains the
\* constraint line FOREIGN KEY (c) REFERENCES u(d) (the only reference the
\* body declares), the parser returns exactly one relationship edge,
\* {fromTable: t, fromColumn: c, toTable: u, toColumn: d}, and column c of t
\* has isForeignKey = true with references {table: u, column: d}
C12_Original ==
    (ParsedSql /\ IsCreateTable(schemaInput.text))
    => LET defs == Definitions(BlockOf(schemaInput.text))
           t == schemaInput.text[3]
           value == schemaResult.value
       IN  \A k \in 1..Len(defs) :
               (/\ IsForeignKeyLine(defs[k])
                /\ \E j \in 1..Len(defs) :
                       IsColumnDefinition(defs[j]) /\ defs[j][1] = defs[k][4]
                /\ \A j \in 1..Len(defs) : j # k => ~HasReferences(defs[j]))
               => /\ value.relationships =
                         <<Relationship(t, defs[k][4], defs[k][7], defs[k][9])>>
                  /\ Len(value.tables) = 1
                  /\ \E i \in 1..Len(value.tables[1].columns) :
                         /\ value.tables[1].columns[i].name = defs[k][4]
                         /\ value.tables[1].columns[i].isForeignKey
                         /\ value.tables[1].columns[i].references =
                                Reference(defs[k][7], defs[k][9])

\* C14: every column the parser returns for a CREATE TABLE statement has as
\* its type the declared type of its definition, parenthesised arguments
\* included, in upper case
C14_Original ==
    (ParsedSql /\ IsCreateTable(schemaInput.text))
    => LET defs == Definitions(BlockOf(schemaInput.text))
           tables == schemaResult.value.tables
       IN  \A n \in 1..Len(tables) : \A i \in 1..Len(tables[n].columns) :
               \E k \in 1..Len(defs) :
                   /\ IsColumnDefinition(defs[k])
                   /\ defs[k][1] = tables[n].columns[i].name
                   /\ tables[n].columns[i].type =
                          [j \in 1..Len(DeclaredType(defs[k])) |->
                              toUpperCase(DeclaredType(defs[k])[j])]

\* C13: neither parser throws, whatever the text; parseJSONSchema returns
\* {tables: [], relationships: []} when its text is not decodable JSON, and
\* parseSQLSchema returns empty lists for a text without any terminated
\* statement
C13_ParsersNeverThrow ==
    schemaResult.called
    => /\ ~schemaResult.threw
       /\ (schemaInput.format = "json" /\ JSONParse(schemaInput.text) = SyntaxError)
              => schemaResult.value = EmptySchema
       /\ (schemaInput.format = "sql" /\ Positions(schemaInput.text, {";"}) = {})
              => schemaResult.value = EmptySchema

\* parseJSONSchema was applied to a text that is not JSON and returned
C13_Witness ==
    /\ schemaResult.called
    /\ schemaInput.format = "json"
    /\ schemaInput.text = <<"[", "users", ",", "]">>
    /\ JSONParse(schemaInput.text) = SyntaxError
    /\ schemaResult.value = EmptySchema

(***************************************************************************)
(* The SQL linter (src/lib/sqlLinter.ts)                                   *)
(* A query text is the sequence of its tokens: words, numbers, quoted      *)
(* literals, qualified names (u.id) and the marks * ( ) , ; = != . It is   *)
(* written with white space between two tokens except before , ; ) and     *)
(* after ( , and with none at its ends.                                    *)
(***************************************************************************)
\* the upper-cased words of the texts that hold a keyword without being it
WordInfixes ==
    {<<"SOMEWHERE", "WHERE">>, <<"PLATFORM", "FORM">>, <<"UPDATE", "DATE">>}

\* an unanchored pattern for kw matches inside the token (flag i)
Contains(t, kw) == toUpperCase(t) = kw \/ <<toUpperCase(t), kw>> \in WordInfixes

\* the token ends with kw: in the modelled words every infix is a suffix
EndsWith(t, kw) == Contains(t, kw)

\* the token begins with kw
StartsWith(t, kw) == toUpperCase(t) = kw

\* \d+ matches the whole token
Numbers == {"1", "10"}

\* quoted literals: the single quotes each holds once '' is removed, whether
\* % follows the opening quote, whether digits do
Literals == {"'a'", "'%a'", "'1'", "'a", "'it''s'"}

QuoteCount(t) ==
    IF t \in {"'a'", "'%a'", "'1'", "'it''s'"} THEN 2 ELSE IF t = "'a" THEN 1 ELSE 0

\* columns written with their table alias
QualifiedNames == {"u.id", "o.user_id"}

Marks == {"*", "(", ")", ",", ";", "=", "!="}

\* \w+ matches the whole token
LintWord(t) == t \notin Marks \cup Literals \cup QualifiedNames

\* white space stands between token i and token i + 1
SpaceAfter(s, i) == i < Len(s) /\ s[i] # "(" /\ s[i + 1] \notin {",", ";", ")"}

\* /SELECT\s+\*/i
HasSelectStar(s) ==
    \E i \in 1..(Len(s) - 1) : EndsWith(s[i], "SELECT") /\ s[i + 1] = "*" /\ SpaceAfter(s, i)

\* /WHERE/i
HasWhere(s) == \E i \in 1..Len(s) : Contains(s[i], "WHERE")

\* /DELETE\s+FROM\s+\w+\s*(?:;|$)/i
HasDeleteFrom(s) ==
    \E i \in 1..(Len(s) - 2) :
        /\ EndsWith(s[i], "DELETE") /\ toUpperCase(s[i + 1]) = "FROM" /\ LintWord(s[i + 2])
        /\ (i + 2 = Len(s) \/ s[i + 3] = ";")

\* /UPDATE\s+\w+\s+SET/i
HasUpdateSet(s) ==
    \E i \in 1..(Len(s) - 2) :
        EndsWith(s[i], "UPDATE") /\ LintWord(s[i + 1]) /\ StartsWith(s[i + 2], "SET")

\* /LIKE\s+['"]%/i
HasLeadingWildcard(s) ==
    \E i \in 1..(Len(s) - 1) : EndsWith(s[i], "LIKE") /\ s[i + 1] = "'%a'"

\* /!=/
HasBangEquals(s) == \E i \in 1..Len(s) : s[i] = "!="

\* (sql.match(/\(/g) || []).length
openParens(s) == Cardinality(Positions(s, {"("}))

\* (sql.match(/\)/g) || []).length
closeParens(s) == Cardinality(Positions(s, {")"}))

\* the single quotes left once every '' is removed
RECURSIVE singleQuotes(_)
singleQuotes(s) == IF s = <<>> THEN 0 ELSE QuoteCount(Head(s)) + singleQuotes(Tail(s))

\* /ORDER\s+BY/i
HasOrderBy(s) ==
    \E i \in 1..(Len(s) - 1) : EndsWith(s[i], "ORDER") /\ StartsWith(s[i + 1], "BY")

\* /LIMIT\s+\d+/i
HasLimit(s) ==
    \E i \in 1..(Len(s) - 1) : EndsWith(s[i], "LIMIT") /\ s[i + 1] \in Numbers

\* the token ends with = : = itself and !=
EndsWithEquals(t) == t \in {"=", "!="}

\* /=\s*['"]?\d+['"]?/
HasEqualsNumber(s) ==
    \E i \in 1..(Len(s) - 1) : EndsWithEquals(s[i]) /\ s[i + 1] \in Numbers \cup {"'1'"}

\* /=\s*['"]/
HasEqualsQuote(s) ==
    \E i \in 1..(Len(s) - 1) : EndsWithEquals(s[i]) /\ s[i + 1] \in Literals

\* (upperSQL.match(/JOIN/g) || []).length
joinCount(s) == Cardinality({i \in 1..Len(s) : Contains(s[i], "JOIN")})

\* /SELECT[^]*?(?<!\.)\b(?:id|name|created_at|updated_at)\b/i
hasAmbiguousColumns(s) ==
    \E i \in 1..Len(s) : \E j \in (i + 1)..Len(s) :
        /\ Contains(s[i], "SELECT")
        /\ toUpperCase(s[j]) \in {"ID", "NAME", "CREATED_AT", "UPDATED_AT"}

\* /SELECT[^]*?\(\s*SELECT/i
HasSubquery(s) ==
    \E i \in 1..Len(s) : \E j \in (i + 1)..(Len(s) - 1) :
        Contains(s[i], "SELECT") /\ s[j] = "(" /\ StartsWith(s[j + 1], "SELECT")

\* /WHERE[^]*?(?:LOWER|UPPER|DATE|YEAR|MONTH)\s*\(/i
HasFunctionInWhere(s) ==
    \E i \in 1..Len(s) : \E j \in (i + 1)..(Len(s) - 1) :
        /\ Contains(s[i], "WHERE")
        /\ \E f \in {"LOWER", "UPPER", "DATE", "YEAR", "MONTH"} : EndsWith(s[j], f)
        /\ s[j + 1] = "("

\* /SELECT\s+DISTINCT/i
HasSelectDistinct(s) ==
    \E i \in 1..(Len(s) - 1) : EndsWith(s[i], "SELECT") /\ StartsWith(s[i + 1], "DISTINCT")

\* sql.match(/ORDER\s+BY\s+(\w+)/i)
orderByMatch(s) ==
    \E i \in 1..(Len(s) - 2) :
        EndsWith(s[i], "ORDER") /\ toUpperCase(s[i + 1]) = "BY" /\ LintWord(s[i + 2])

\* /,\s*FROM/i
HasCommaFrom(s) ==
    \E i \in 1..(Len(s) - 1) : s[i] = "," /\ StartsWith(s[i + 1], "FROM")

\* sql.trim().split(/;/).filter(s => s.trim())
statements(s) == SelectSeq(Split(s, ";"), LAMBDA part : part # <<>>)

\* sql.trim().endsWith(';')
EndsWithSemicolon(s) == s # <<>> /\ s[Len(s)] = ";"

\* const typos: the patterns (all with the flag g) and their corrections;
\* FORM must have white space after it
typos ==
    <<[wrong |-> "SLECT", space |-> FALSE, correct |-> "SELECT"],
      [wrong |-> "FORM", space |-> TRUE, correct |-> "FROM "],
      [wrong |-> "WEHRE", space |-> FALSE, correct |-> "WHERE"],
      [wrong |-> "GRUOP", space |-> FALSE, correct |-> "GROUP"],
      [wrong |-> "ODERR", space |-> FALSE, correct |-> "ORDER"]>>

\* where typos[k].wrong matches in the text
TypoMatches(s, k) ==
    {i \in 1..Len(s) : Contains(s[i], typos[k].wrong) /\ (typos[k].space => SpaceAfter(s, i))}

\* wrong.test(sql) of a pattern with the flag g whose lastIndex is at token
\* from: the search starts there; a match moves lastIndex behind it and a
\* failure resets it to 0
TypoTest(s, k, from) ==
    LET M == {i \in TypoMatches(s, k) : i > from}
    IN  IF M = {} THEN [found |-> FALSE, lastIndex |-> 0]
                  ELSE [found |-> TRUE, lastIndex |-> SetMin(M)]

\* the lastIndex of the five patterns when typos.forEach begins, had the
\* array been created once for the module
NewTypoPatterns_ModuleLevel(previous) == previous

\* the array literal inside lintSQL creates five new RegExp objects on every
\* call: lastIndex is 0, whatever the objects of the call before held
NewTypoPatterns(previous) == [k \in DOMAIN typos |-> 0]

Issue(type, message, args) == [type |-> type, message |-> message, args |-> args]

DeleteIssue == Issue("error", "DELETE without WHERE clause will delete all rows", <<>>)

\* the message holds the two counts
ParenthesesIssue(open, close) == Issue("error", "Unbalanced parentheses", <<open, close>>)

\* if (condition) issues.push(issue)
When(condition, issue) == IF condition THEN <<issue>> ELSE <<>>

\* the issue of the DELETE check without the test for WHERE
DeleteCheck_NoWhereTest(s) == When(HasDeleteFrom(s), DeleteIssue)

\* if (/DELETE\s+FROM\s+\w+\s*(?:;|$)/i.test(sql) && !/WHERE/i.test(sql))
DeleteCheck(s) == When(HasDeleteFrom(s) /\ ~HasWhere(s), DeleteIssue)

\* the parentheses check pushing one issue for every surplus parenthesis
ParenthesesCheck_PerSurplus(s) ==
    IF openParens(s) > closeParens(s)
        THEN [i \in 1..(openParens(s) - closeParens(s)) |->
                 ParenthesesIssue(openParens(s), closeParens(s))]
        ELSE <<>>

\* if (openParens !== closeParens)
ParenthesesCheck(s) ==
    When(openParens(s) # closeParens(s), ParenthesesIssue(openParens(s), closeParens(s)))

\* the issues of typos.forEach, the patterns starting at lastIndex[k]
TypoIssues(s, lastIndex) ==
    Concat([k \in DOMAIN typos |->
               When(TypoTest(s, k, lastIndex[k]).found,
                    Issue("error", "Possible typo: did you mean ?", <<typos[k].correct>>))])

\* the checks before the typos, in the order of the code
ChecksBeforeTypos(s) ==
    When(HasSelectStar(s),
         Issue("warning", "Avoid SELECT * - specify columns explicitly for better performance", <<>>))
    \o DeleteCheck(s)
    \o When(HasUpdateSet(s) /\ ~HasWhere(s),
            Issue("error", "UPDATE without WHERE clause will update all rows", <<>>))
    \o When(HasLeadingWildcard(s),
            Issue("warning", "LIKE with leading wildcard cannot use indexes", <<>>))
    \o When(HasBangEquals(s),
            Issue("info", "Consider using <> instead of != for SQL standard compliance", <<>>))
    \o ParenthesesCheck(s)
    \o When(singleQuotes(s) % 2 # 0, Issue("error", "Unbalanced single quotes", <<>>))
    \o When(HasLimit(s) /\ ~HasOrderBy(s),
            Issue("warning", "LIMIT without ORDER BY returns non-deterministic results", <<>>))
    \o When(HasEqualsNumber(s) /\ HasEqualsQuote(s),
            Issue("info", "Possible implicit type conversion in comparison", <<>>))
    \o When(joinCount(s) > 0 /\ hasAmbiguousColumns(s),
            Issue("info", "Consider using table aliases for column references in JOINs", <<>>))
    \o When(HasSubquery(s),
            Issue("warning", "Correlated subquery in SELECT may cause N+1 performance issues", <<>>))
    \o When(HasFunctionInWhere(s),
            Issue("warning", "Function on column in WHERE clause prevents index usage", <<>>))
    \o When(HasSelectDistinct(s) /\ HasOrderBy(s) /\ orderByMatch(s),
            Issue("info", "Ensure ORDER BY columns are included in SELECT DISTINCT", <<>>))

\* the checks after the typos
ChecksAfterTypos(s) ==
    When(HasCommaFrom(s), Issue("error", "Trailing comma before FROM clause", <<>>))
    \o When(Len(statements(s)) > 1 /\ ~EndsWithSemicolon(s),
            Issue("info", "Consider ending the last statement with a semicolon", <<>>))

\* lintSQL sorting its issues by severity before it returns them
Ordered_BySeverity(issues) ==
    SelectSeq(issues, LAMBDA i : i.type = "error")
    \o SelectSeq(issues, LAMBDA i : i.type = "warning")
    \o SelectSeq(issues, LAMBDA i : i.type = "info")

\* return issues: the array in the order of the pushes
Ordered(issues) == issues

\* lintSQL(sql) run with typo patterns whose lastIndex is given: the issues
\* it returns and the lastIndex the patterns are left with
lintSQL(s, lastIndex) ==
    [issues |-> Ordered(ChecksBeforeTypos(s) \o TypoIssues(s, lastIndex) \o ChecksAfterTypos(s)),
     lastIndex |-> [k \in DOMAIN typos |-> TypoTest(s, k, lastIndex[k]).lastIndex]]

(***************************************************************************)
(* The query texts the linter is applied to                                *)
(***************************************************************************)
\* how many calls of lintSQL a behaviour holds
MaxLintCalls == 2

LintTexts ==
    {<<>>,
     <<"SELECT", "*", "FROM", "users">>,
     <<"SELECT", "id", ",", "name", "FROM", "users", "WHERE", "id", "=", "1">>,
     <<"DELETE", "FROM", "users", ";">>,
     <<"DELETE", "FROM", "users">>,
     <<"delete", "from", "users">>,
     <<"DELETE", "FROM", "users", "WHERE", "id", "=", "1", ";">>,
     <<"DELETE", "FROM", "users", "u", ";">>,
     <<"DELETE", "FROM", "users", ";", "SELECT", "id", "FROM", "orders", "WHERE", "id", "=", "1", ";">>,
     <<"SELECT", "id", "FROM", "somewhere", ";", "DELETE", "FROM", "users", ";">>,
     <<"UPDATE", "users", "SET", "name", "=", "'a'">>,
     <<"UPDATE", "users", "SET", "name", "=", "'a'", "WHERE", "id", "=", "1">>,
     <<"SELECT", "name", "FROM", "users", "WHERE", "name", "LIKE", "'%a'">>,
     <<"SELECT", "id", "FROM", "users", "WHERE", "id", "!=", "1">>,
     <<"SELECT", "LOWER", "(", "name", "FROM", "users">>,
     <<"SELECT", "id", "FROM", "users", "WHERE", "(", "(", "id", "=", "1", ")">>,
     <<"SELECT", "id", "FROM", "users", ")">>,
     <<"SELECT", "id", "FROM", "users", ")", "(">>,
     <<"SELECT", "id", "FROM", "users", "WHERE", "LOWER", "(", "name", ")", "=", "'a'">>,
     <<"SELECT", "id", "FROM", "users", "WHERE", "name", "=", "'a">>,
     <<"SELECT", "id", "FROM", "users", "WHERE", "name", "=", "'it''s'">>,
     <<"SELECT", "id", "FROM", "users", "LIMIT", "10">>,
     <<"SELECT", "id", "FROM", "users", "ORDER", "BY", "id", "LIMIT", "10">>,
     <<"SELECT", "id", "FROM", "users", "WHERE", "id", "=", "'1'">>,
     <<"SELECT", "name", "FROM", "users", "u", "JOIN", "orders", "o", "ON", "u.id", "=", "o.user_id">>,
     <<"SELECT", "u.id", "FROM", "users", "u", "JOIN", "orders", "o", "ON", "u.id", "=", "o.user_id">>,
     <<"SELECT", "id", ",", "(", "SELECT", "1", ")", "FROM", "users">>,
     <<"SELECT", "DISTINCT", "name", "FROM", "users", "ORDER", "BY", "name">>,
     <<"SLECT", "id", "FROM", "users">>,
     <<"SELECT", "id", "FORM", "users">>,
     <<"SELECT", "id", "FROM", "platform">>,
     <<"SELECT", "id", "FROM", "platform", "WHERE", "id", "=", "1">>,
     <<"SELECT", "id", ",", "FROM", "users">>,
     <<"SELECT", "1", ";", "SELECT", "1">>,
     <<"SELECT", "1", ";", "SELECT", "1", ";">>,
     <<"SLECT", "id", "FROM", "users", ";", "slect", "1">>,
     <<"slect", "id", "FORM", "users", "WEHRE", "id", "=", "1", "GRUOP", "BY", "id",
       "ODERR", "BY", "id">>,
     <<"SELECT", "*", ",", "FROM", "users", "WHERE", "id", "!=", "'1'", ")", "LIMIT", "10",
       ";", "SLECT", "1">>}

\* the texts of the behaviours with more calls
RepeatTexts ==
    {<<"SELECT", "*", "FROM", "users">>,
     <<"SLECT", "id", "FROM", "users">>,
     <<"SLECT", "id", "FROM", "users", ";", "slect", "1">>,
     <<"SELECT", "id", "FORM", "users">>,
     <<"DELETE", "FROM", "users", ";">>}

\* how many calls of lintSQL such a behaviour holds
MaxRepeatCalls == 3

InitLinter ==
    /\ env = [p \in ProviderNames |-> ""]
    /\ InitRequests
    /\ InitHistory
    /\ InitClient

\* one call lintSQL(sql); the component keeps what it returned
LintSQL(sql) ==
    LET run == lintSQL(sql, NewTypoPatterns(typoLastIndex))
    IN  /\ lintRuns' = Append(lintRuns, [sql |-> sql, issues |-> run.issues])
        /\ typoLastIndex' = run.lastIndex
        /\ UNCHANGED <<gatewayVars, historyVars, schemaInput, schemaResult, pageVars, sessionVars>>

Lint == \E sql \in LintTexts : Len(lintRuns) < MaxLintCalls /\ LintSQL(sql)

NextLinter == Lint

SpecLinter == InitLinter /\ [][NextLinter]_vars

LintAgain == \E sql \in RepeatTexts : Len(lintRuns) < MaxRepeatCalls /\ LintSQL(sql)

NextLintRepeat == LintAgain

SpecLintRepeat == InitLinter /\ [][NextLintRepeat]_vars

(***************************************************************************)
(* Properties of the linter                                                *)
(***************************************************************************)
\* the statements of a text: its parts between the semicolons
StatementsOf(s) == {Split(s, ";")[i] : i \in DOMAIN Split(s, ";")} \ {<<>>}

\* the statement holds DELETE FROM <table>
IsDelete(st) ==
    \E i \in 1..(Len(st) - 2) :
        toUpperCase(st[i]) = "DELETE" /\ toUpperCase(st[i + 1]) = "FROM" /\ LintWord(st[i + 2])

\* the statement has a WHERE clause
HasWhereClause(st) == \E i \in 1..Len(st) : toUpperCase(st[i]) = "WHERE"

\* the statement ends with DELETE FROM <table>
EndsWithDelete(st) ==
    /\ Len(st) >= 3
    /\ toUpperCase(st[Len(st) - 2]) = "DELETE"
    /\ toUpperCase(st[Len(st) - 1]) = "FROM"
    /\ LintWord(st[Len(st)])

\* how often the issue occurs among the issues
Count(issues, issue) == Cardinality({i \in DOMAIN issues : issues[i] = issue})

ParenthesesIssues(issues) == SelectSeq(issues, LAMBDA i : i.message = "Unbalanced parentheses")

\* C16: for every text lintSQL yields exactly one issue about unbalanced
\* parentheses, of severity error and holding the number of opening and the
\* number of closing parentheses, when the two numbers differ, and no such
\* issue when they are equal
C16_UnbalancedParentheses ==
    \A r \in DOMAIN lintRuns :
        LET sql == lintRuns[r].sql
            opening == Cardinality({i \in 1..Len(sql) : sql[i] = "("})
            closing == Cardinality({i \in 1..Len(sql) : sql[i] = ")"})
            found == ParenthesesIssues(lintRuns[r].issues)
        IN  IF opening # closing
                THEN /\ Len(found) = 1
                     /\ found[1].type = "error"
                     /\ found[1].args = <<opening, closing>>
                ELSE found = <<>>

\* lintSQL was applied to a text with two opening and one closing
\* parenthesis, and to one with a closing parenthesis only
C16_Witness ==
    /\ Len(lintRuns) = 2
    /\ lintRuns[1].sql = <<"SELECT", "id", "FROM", "users", "WHERE", "(", "(", "id", "=", "1", ")">>
    /\ ParenthesesIssues(lintRuns[1].issues) = <<ParenthesesIssue(2, 1)>>
    /\ lintRuns[2].sql = <<"SELECT", "id", "FROM", "users", ")">>
    /\ ParenthesesIssues(lintRuns[2].issues) = <<ParenthesesIssue(0, 1)>>

\* the catalogue of checks in the order they are written: the message of
\* each (for a typo its correction too) and whether its own test holds of s
Catalogue(s) ==
    <<[message |-> "Avoid SELECT * - specify columns explicitly for better performance",
       args |-> <<>>, fires |-> HasSelectStar(s)],
      [message |-> "DELETE without WHERE clause will delete all rows",
       args |-> <<>>, fires |-> HasDeleteFrom(s) /\ ~HasWhere(s)],
      [message |-> "UPDATE without WHERE clause will update all rows",
       args |-> <<>>, fires |-> HasUpdateSet(s) /\ ~HasWhere(s)],
      [message |-> "LIKE with leading wildcard cannot use indexes",
       args |-> <<>>, fires |-> HasLeadingWildcard(s)],
      [message |-> "Consider using <> instead of != for SQL standard compliance",
       args |-> <<>>, fires |-> HasBangEquals(s)],
      [message |-> "Unbalanced parentheses",
       args |-> <<openParens(s), closeParens(s)>>, fires |-> openParens(s) # closeParens(s)],
      [message |-> "Unbalanced single quotes",
       args |-> <<>>, fires |-> singleQuotes(s) % 2 = 1],
      [message |-> "LIMIT without ORDER BY returns non-deterministic results",
       args |-> <<>>, fires |-> HasLimit(s) /\ ~HasOrderBy(s)],
      [message |-> "Possible implicit type conversion in comparison",
       args |-> <<>>, fires |-> HasEqualsNumber(s) /\ HasEqualsQuote(s)],
      [message |-> "Consider using table aliases for column references in JOINs",
       args |-> <<>>, fires |-> joinCount(s) > 0 /\ hasAmbiguousColumns(s)],
      [message |-> "Correlated subquery in SELECT may cause N+1 performance issues",
       args |-> <<>>, fires |-> HasSubquery(s)],
      [message |-> "Function on column in WHERE clause prevents index usage",
       args |-> <<>>, fires |-> HasFunctionInWhere(s)],
      [message |-> "Ensure ORDER BY columns are included in SELECT DISTINCT",
       args |-> <<>>, fires |-> HasSelectDistinct(s) /\ orderByMatch(s)],
      [message |-> "Possible typo: did you mean ?",
       args |-> <<"SELECT">>, fires |-> TypoMatches(s, 1) # {}],
      [message |-> "Possible typo: did you mean ?",
       args |-> <<"FROM ">>, fires |-> TypoMatches(s, 2) # {}],
      [message |-> "Possible typo: did you mean ?",
       args |-> <<"WHERE">>, fires |-> TypoMatches(s, 3) # {}],
      [message |-> "Possible typo: did you mean ?",
       args |-> <<"GROUP">>, fires |-> TypoMatches(s, 4) # {}],
      [message |-> "Possible typo: did you mean ?",
       args |-> <<"ORDER">>, fires |-> TypoMatches(s, 5) # {}],
      [message |-> "Trailing comma before FROM clause",
       args |-> <<>>, fires |-> HasCommaFrom(s)],
      [message |-> "Consider ending the last statement with a semicolon",
       args |-> <<>>, fires |-> Len(statements(s)) > 1 /\ ~EndsWithSemicolon(s)]>>

\* the place in the catalogue of the check that pushed the issue (0: none)
Rank(catalogue, issue) ==
    LET K == {k \in DOMAIN catalogue :
                 catalogue[k].message = issue.message /\ catalogue[k].args = issue.args}
    IN  IF K = {} THEN 0 ELSE SetMin(K)

\* C17: the issues lintSQL returns stand in the order in which the checks
\* are written, whatever their severities, and a check has its issue among
\* them exactly when its own test holds of the text, whichever other checks
\* fired
C17_InsertionOrder ==
    \A r \in DOMAIN lintRuns :
        LET catalogue == Catalogue(lintRuns[r].sql)
            ranks == [i \in DOMAIN lintRuns[r].issues |-> Rank(catalogue, lintRuns[r].issues[i])]
        IN  /\ \A i \in DOMAIN ranks : ranks[i] # 0
            /\ \A i, j \in DOMAIN ranks : i < j => ranks[i] < ranks[j]
            /\ \A k \in DOMAIN catalogue :
                   catalogue[k].fires <=> \E i \in DOMAIN ranks : ranks[i] = k

\* lintSQL returned eight issues for one text, an info before an error and
\* a warning before an error
C17_Witness ==
    \E r \in DOMAIN lintRuns :
        LET issues == lintRuns[r].issues
        IN  /\ Len(issues) = 8
            /\ \E i, j \in DOMAIN issues :
                   i < j /\ issues[i].type = "info" /\ issues[j].type = "error"
            /\ \E i, j \in DOMAIN issues :
                   i < j /\ issues[i].type = "warning" /\ issues[j].type = "error"

\* C18: two calls of lintSQL with the same text return the same issues,
\* whichever calls came before or between them; in particular the typo
\* patterns of a call start at lastIndex 0 whatever the call before left
C18_SameTextSameIssues ==
    \A i, j \in DOMAIN lintRuns :
        lintRuns[i].sql = lintRuns[j].sql => lintRuns[i].issues = lintRuns[j].issues

\* a text with a typo was linted, then another text, then the first again,
\* and the first call had moved lastIndex of the pattern that matched
C18_Witness ==
    /\ Len(lintRuns) = 3
    /\ lintRuns[1].sql = <<"SLECT", "id", "FROM", "users", ";", "slect", "1">>
    /\ lintRuns[2].sql = <<"SLECT", "id", "FROM", "users">>
    /\ lintRuns[3].sql = lintRuns[1].sql
    /\ typoLastIndex[1] # 0
    /\ \E k \in DOMAIN lintRuns[3].issues : lintRuns[3].issues[k].args = <<"SELECT">>

(***************************************************************************)
(* The SQL formatter (formatSQL of src/lib/queryManager)                   *)
(* Here white space counts: a text is the sequence of its words, its       *)
(* commas and its white-space characters, " " and "\n". Two words never    *)
(* stand side by side without white space or a comma between them.         *)
(***************************************************************************)
\* const majorKeywords, each keyword as its words
majorKeywords ==
    << <<"SELECT">>, <<"FROM">>, <<"WHERE">>, <<"JOIN">>, <<"LEFT", "JOIN">>,
       <<"RIGHT", "JOIN">>, <<"INNER", "JOIN">>, <<"OUTER", "JOIN">>, <<"FULL", "JOIN">>,
       <<"CROSS", "JOIN">>, <<"ON">>, <<"AND">>, <<"OR">>, <<"ORDER", "BY">>,
       <<"GROUP", "BY">>, <<"HAVING">>, <<"LIMIT">>, <<"OFFSET">>, <<"UNION">>,
       <<"EXCEPT">>, <<"INTERSECT">>, <<"INSERT", "INTO">>, <<"VALUES">>, <<"UPDATE">>,
       <<"SET">>, <<"DELETE", "FROM">>, <<"CREATE", "TABLE">>, <<"ALTER", "TABLE">>,
       <<"DROP", "TABLE">>, <<"WITH">>, <<"AS">>, <<"CASE">>, <<"WHEN">>, <<"THEN">>,
       <<"ELSE">>, <<"END">> >>

\* the keyword as it is written in a text: one space between its words
Written(kw) == IF Len(kw) = 1 THEN kw ELSE <<kw[1], " ", kw[2]>>

\* \s matches the token
IsSpace(t) == t \in {" ", "\n"}

\* the length of the longest run of white space that begins at position i
RECURSIVE SpaceRun(_, _)
SpaceRun(s, i) == IF i <= Len(s) /\ IsSpace(s[i]) THEN 1 + SpaceRun(s, i + 1) ELSE 0

\* String.prototype.trim
RECURSIVE trim(_)
trim(s) ==
    IF s = <<>> THEN s
    ELSE IF IsSpace(s[1]) THEN trim(Tail(s))
    ELSE IF IsSpace(s[Len(s)]) THEN trim(SubSeq(s, 1, Len(s) - 1))
    ELSE s

\* formatted.replace(/\s+/g, ' '), from position i on
RECURSIVE NormalizeFrom(_, _)
NormalizeFrom(s, i) ==
    IF i > Len(s) THEN <<>>
    ELSE IF IsSpace(s[i]) THEN <<" ">> \o NormalizeFrom(s, i + SpaceRun(s, i))
    ELSE <<s[i]>> \o NormalizeFrom(s, i + 1)

\* the written keyword w stands at position i of s, in any case
KeywordAt(s, i, w) ==
    /\ i + Len(w) - 1 <= Len(s)
    /\ \A k \in 1..Len(w) : toUpperCase(s[i + k - 1]) = w[k]

\* keyword + '\\s+' of that pattern, with the flags gi, matches at position j
MatchesAt(s, j, w) == KeywordAt(s, j, w) /\ SpaceRun(s, j + Len(w)) > 0

\* formatted.replace(new RegExp('\\s+' + keyword + '\\s+', 'gi'),
\* '\n' + keyword + ' '), from position i on: the matches are taken from
\* left to right and a match begins behind the one before it
RECURSIVE BreakBeforeFrom(_, _, _)
BreakBeforeFrom(s, i, w) ==
    IF i > Len(s) THEN <<>>
    ELSE LET j == i + SpaceRun(s, i)
             k == j + Len(w)
         IN  IF j > i /\ MatchesAt(s, j, w)
                 THEN <<"\n">> \o w \o <<" ">> \o BreakBeforeFrom(s, k + SpaceRun(s, k), w)
                 ELSE <<s[i]>> \o BreakBeforeFrom(s, i + 1, w)

\* formatted.replace(new RegExp('\\b' + keyword + '\\b', 'gi'), keyword)
RECURSIVE CapitalizeFrom(_, _, _)
CapitalizeFrom(s, i, w) ==
    IF i > Len(s) THEN <<>>
    ELSE IF KeywordAt(s, i, w) THEN w \o CapitalizeFrom(s, i + Len(w), w)
    ELSE <<s[i]>> \o CapitalizeFrom(s, i + 1, w)

\* majorKeywords.forEach with the first replacement, from the n-th keyword
\* on (the test on the length only makes the text a value before it is
\* handed on)
RECURSIVE BreakBeforeKeywords(_, _)
BreakBeforeKeywords(s, n) ==
    IF n > Len(majorKeywords) THEN s
    ELSE LET formatted == BreakBeforeFrom(s, 1, Written(majorKeywords[n]))
         IN  IF Len(formatted) >= 0 THEN BreakBeforeKeywords(formatted, n + 1) ELSE s

\* majorKeywords.forEach with the second replacement, from the n-th keyword on
RECURSIVE CapitalizeKeywords(_, _)
CapitalizeKeywords(s, n) ==
    IF n > Len(majorKeywords) THEN s
    ELSE LET formatted == CapitalizeFrom(s, 1, Written(majorKeywords[n]))
         IN  IF Len(formatted) >= 0 THEN CapitalizeKeywords(formatted, n + 1) ELSE s

\* formatted.replace(/,\s*/g, ',\n  '), from position i on
RECURSIVE BreakAfterCommas(_, _)
BreakAfterCommas(s, i) ==
    IF i > Len(s) THEN <<>>
    ELSE IF s[i] = ","
        THEN <<",", "\n", " ", " ">> \o BreakAfterCommas(s, i + 1 + SpaceRun(s, i + 1))
    ELSE <<s[i]>> \o BreakAfterCommas(s, i + 1)

\* formatted.replace(/^\n/, '')
DropFirstNewline(s) == IF s # <<>> /\ s[1] = "\n" THEN Tail(s) ELSE s

\* words of the modelled texts that begin with a keyword without being it
\* (upper-cased): ORDER begins with OR
WordPrefixes == {<<"ORDER", "OR">>, <<"ORDERS", "OR">>}

\* the upper-cased word begins with the characters of kw
WordStartsWith(t, kw) == toUpperCase(t) = kw \/ <<toUpperCase(t), kw>> \in WordPrefixes

\* majorKeywords.some(kw => trimmed.toUpperCase().startsWith(kw))
startsWithKeyword(line) ==
    \E n \in DOMAIN majorKeywords :
        LET kw == majorKeywords[n]
        IN  IF Len(kw) = 1
                THEN Len(line) >= 1 /\ WordStartsWith(line[1], kw[1])
                ELSE /\ Len(line) >= 3
                     /\ toUpperCase(line[1]) = kw[1] /\ line[2] = " "
                     /\ WordStartsWith(line[3], kw[2])

\* the callback of lines.map
IndentLine(line, index) ==
    IF index = 0 \/ startsWithKeyword(trim(line))
        THEN trim(line)
        ELSE <<" ", " ">> \o trim(line)

\* indentedLines.join('\n')
RECURSIVE JoinWithNewlines(_)
JoinWithNewlines(ls) ==
    IF Len(ls) = 1 THEN ls[1] ELSE ls[1] \o <<"\n">> \o JoinWithNewlines(Tail(ls))

\* lines = formatted.split('\n'), the map and the join
Indented(s) ==
    LET lines == Split(s, "\n")
    IN  JoinWithNewlines([n \in DOMAIN lines |-> IndentLine(lines[n], n - 1)])

\* formatSQL(sql)
formatSQL(sql) ==
    LET normalized == NormalizeFrom(trim(sql), 1)
        broken == BreakBeforeKeywords(normalized, 1)
        capitalized == CapitalizeKeywords(broken, 1)
    IN  Indented(DropFirstNewline(BreakAfterCommas(capitalized, 1)))

(***************************************************************************)
(* The Format button of the Builder page                                   *)
(***************************************************************************)
\* how many tokens a generated text holds at most
MaxFormatLen == 6

\* how often Format is pressed on one text
MaxFormats == 2

FormatTokens == {"a", "and", ",", " "}

\* the word tokens among them
IsFormatWord(t) == t \in {"a", "and"}

\* two words are always apart: by white space or by a comma
WordsApart(s) == \A i \in 1..(Len(s) - 1) : ~(IsFormatWord(s[i]) /\ IsFormatWord(s[i + 1]))

\* texts the generator and the editor leave in generatedSQL
QueryTexts ==
    {<<"select", " ", "a", ",", " ", "b", " ", "from", " ", "t", " ", "where", " ", "a",
       " ", "and", " ", "b", " ", "order", " ", "by", " ", "a">>,
     <<"SELECT", " ", "a", ",", "b", "\n", "FROM", " ", "orders", " ", "o", "\n", "left",
       " ", "join", " ", "users", " ", "u", " ", "on", " ", "a">>,
     <<"delete", " ", "from", " ", "t", " ", "where", " ", "a", " ", "or", " ", "and", " ", "b">>,
     <<" ", "select", " ", " ", "a", " ", "as", " ", "b", ",", "and", " ", "AND", " ", "b", "\n">>}

FormatTexts ==
    QueryTexts \cup
    {s \in UNION {[1..n -> FormatTokens] : n \in 1..MaxFormatLen} : WordsApart(s)}

InitFormatter ==
    /\ env = [p \in ProviderNames |-> ""]
    /\ InitRequests
    /\ InitHistory
    /\ schemaInput = [format |-> "sql", text |-> <<>>]
    /\ schemaResult = NotCalled
    /\ lintRuns = <<>>
    /\ typoLastIndex = <<0, 0, 0, 0, 0>>
    /\ \E s \in FormatTexts : sqlVersions = <<s>>
    /\ exportData = [query |-> <<>>, sql |-> <<>>, dialect |-> postgresql, schema |-> <<>>]
    /\ link = NoLink
    /\ opened = NewBuilder
    /\ InitSession

\* const [generatedSQL] = useState
generatedSQL == sqlVersions[Len(sqlVersions)]

\* handleFormat: nothing to format when generatedSQL is empty
HandleFormat ==
    /\ Len(sqlVersions) <= MaxFormats
    /\ generatedSQL # <<>>
    /\ sqlVersions' = Append(sqlVersions, formatSQL(generatedSQL))
    /\ ui' = [ui EXCEPT !.toast = [kind |-> "success", message |-> "SQL formatted"]]
    /\ UNCHANGED <<gatewayVars, historyVars, schemaInput, schemaResult, lintRuns,
                   typoLastIndex, exportData, link, opened, sampleData, inflight,
                   importDialog>>

NextFormatter == HandleFormat

SpecFormatter == InitFormatter /\ [][NextFormatter]_vars

(***************************************************************************)
(* The claims about the formatter                                          *)
(***************************************************************************)
\* C19 as stated: formatSQL is idempotent: whatever the text, formatting the
\* formatted text gives the formatted text again. The second press of Format
\* leaves generatedSQL as the first press made it.
C19_Original ==
    \A k \in 2..(Len(sqlVersions) - 1) : sqlVersions[k + 1] = sqlVersions[k]

(***************************************************************************)
(* Share links (QueryShare.handleCopyLink and the effect of Builder)       *)
(* A text is the sequence of its UTF-16 code units. A base64 text is the   *)
(* sequence of its digits: the digit of value v is v, with 62 for '+' and  *)
(* 63 for '/'.                                                             *)
(***************************************************************************)
mysql == <<109, 121, 115, 113, 108>>

\* the keys of SharedQuery and the version '1.0'
Key ==
    [version |-> <<118, 101, 114, 115, 105, 111, 110>>,
     query |-> <<113, 117, 101, 114, 121>>,
     sql |-> <<115, 113, 108>>,
     dialect |-> <<100, 105, 97, 108, 101, 99, 116>>,
     schema |-> <<115, 99, 104, 101, 109, 97>>,
     timestamp |-> <<116, 105, 109, 101, 115, 116, 97, 109, 112>>]

Version10 == <<49, 46, 48>>

\* what new Date().toISOString() may return: 2026-11-01T09:30:00.000Z and
\* the millisecond after it
TimeStamps ==
    {<<50, 48, 50, 54, 45, 49, 49, 45, 48, 49, 84, 48, 57, 58, 51, 48, 58, 48, 48, 46, 48,
       48, 48, 90>>,
     <<50, 48, 50, 54, 45, 49, 49, 45, 48, 49, 84, 48, 57, 58, 51, 48, 58, 48, 48, 46, 48,
       48, 49, 90>>}

\* the code units of " \ and n, of the line feed, and of { } : ,
Char ==
    [quote |-> 34, backslash |-> 92, n |-> 110, lineFeed |-> 10, openBrace |-> 123,
     closeBrace |-> 125, colon |-> 58, comma |-> 44]

\* JSON.stringify of the characters of a string: the quote, the backslash
\* and the line feed are escaped (the other control characters and lone
\* surrogates, escaped too, are in no text of the model)
RECURSIVE Escaped(_)
Escaped(s) ==
    IF s = <<>> THEN <<>>
    ELSE (IF Head(s) = Char.quote THEN <<Char.backslash, Char.quote>>
          ELSE IF Head(s) = Char.backslash THEN <<Char.backslash, Char.backslash>>
          ELSE IF Head(s) = Char.lineFeed THEN <<Char.backslash, Char.n>>
          ELSE <<Head(s)>>) \o Escaped(Tail(s))

\* JSON.stringify of a string
Quoted(s) == <<Char.quote>> \o Escaped(s) \o <<Char.quote>>

\* one member of the object
Member(key, value) == Quoted(key) \o <<Char.colon>> \o Quoted(value)

\* JSON.stringify(exportData): the keys in the order of the literal
stringify(data) ==
    <<Char.openBrace>> \o Member(Key.version, data.version) \o <<Char.comma>>
        \o Member(Key.query, data.query) \o <<Char.comma>>
        \o Member(Key.sql, data.sql) \o <<Char.comma>>
        \o Member(Key.dialect, data.dialect) \o <<Char.comma>>
        \o Member(Key.schema, data.schema) \o <<Char.comma>>
        \o Member(Key.timestamp, data.timestamp) \o <<Char.closeBrace>>

\* the base64 digits '+' and '=', and the space that a URL reads for '+'
Digit == [plus |-> 62, pad |-> 64, space |-> 65]

\* the base64 digits of a sequence of bytes
RECURSIVE Base64(_)
Base64(bytes) ==
    IF bytes = <<>> THEN <<>>
    ELSE IF Len(bytes) = 1
        THEN <<bytes[1] \div 4, (bytes[1] % 4) * 16, Digit.pad, Digit.pad>>
    ELSE IF Len(bytes) = 2
        THEN <<bytes[1] \div 4, (bytes[1] % 4) * 16 + bytes[2] \div 16,
               (bytes[2] % 16) * 4, Digit.pad>>
    ELSE <<bytes[1] \div 4, (bytes[1] % 4) * 16 + bytes[2] \div 16,
           (bytes[2] % 16) * 4 + bytes[3] \div 64, bytes[3] % 64>>
         \o Base64(SubSeq(bytes, 4, Len(bytes)))

\* what btoa and atob give when they throw: no text, whose code units and
\* bytes are natural numbers, equals it
InvalidCharacterError == <<-1>>

\* btoa(s): throws when a code unit is above U+00FF
btoa(s) ==
    IF \E i \in DOMAIN s : s[i] > 255 THEN InvalidCharacterError ELSE Base64(s)

\* searchParams.get('shared') for the URL ...?shared=encoded: the query
\* string is parsed as a form, '+' is read as a space
searchParamsGet(encoded) ==
    [i \in DOMAIN encoded |-> IF encoded[i] = Digit.plus THEN Digit.space ELSE encoded[i]]

\* the bytes of a sequence of base64 digits; the bits left over are dropped
RECURSIVE Bytes(_)
Bytes(digits) ==
    IF Len(digits) < 2 THEN <<>>
    ELSE IF Len(digits) = 2
        THEN <<digits[1] * 4 + digits[2] \div 16>>
    ELSE IF Len(digits) = 3
        THEN <<digits[1] * 4 + digits[2] \div 16, (digits[2] % 16) * 16 + digits[3] \div 4>>
    ELSE <<digits[1] * 4 + digits[2] \div 16, (digits[2] % 16) * 16 + digits[3] \div 4,
           (digits[3] % 4) * 64 + digits[4]>>
         \o Bytes(SubSeq(digits, 5, Len(digits)))

\* atob(data), the forgiving base64 decoding: white space is removed, then
\* one or two '=' at the end of a text of 4n characters; a text of 4n + 1
\* characters or with another character than a digit throws
atob(data) ==
    LET stripped == SelectSeq(data, LAMBDA c : c # Digit.space)
        n == Len(stripped)
        unpadded ==
            IF n > 0 /\ n % 4 = 0 /\ stripped[n] = Digit.pad
                THEN IF stripped[n - 1] = Digit.pad
                         THEN SubSeq(stripped, 1, n - 2)
                         ELSE SubSeq(stripped, 1, n - 1)
                ELSE stripped
    IN  IF Len(unpadded) % 4 = 1 \/ \E i \in DOMAIN unpadded : unpadded[i] = Digit.pad
            THEN InvalidCharacterError
            ELSE Bytes(unpadded)

\* JSON.parse throws
JsonSyntaxError == [kind |-> "SyntaxError"]

\* JSON.parse meets JSON that the object of strings of a share link never
\* holds (white space between the tokens, a value that is no string, one of
\* the escapes \/ \b \f \r \t \u): its result is not modelled
NotModelled == [kind |-> "not modelled"]

\* the code units that are white space in JSON
JsonSpace == {32, 9, 10, 13}

\* the code units a JSON value other than a string begins with: a digit, the
\* minus sign, t, f, n, the opening bracket and the opening brace
ValueStart == (48..57) \cup {45, 116, 102, 110, 91, 123}

\* the character c goes in front of the string that r holds
Prefixed(c, r) == IF r.kind = "string" THEN [r EXCEPT !.value = <<c>> \o @] ELSE r

\* the characters of a JSON string from position i, behind its opening
\* quote, to the closing quote: a control character ends the parse
RECURSIVE StringFrom(_, _)
StringFrom(t, i) ==
    IF i > Len(t) THEN JsonSyntaxError
    ELSE IF t[i] = Char.quote THEN [kind |-> "string", value |-> <<>>, next |-> i + 1]
    ELSE IF t[i] < 32 THEN JsonSyntaxError
    ELSE IF t[i] = Char.backslash
        THEN IF i = Len(t) THEN JsonSyntaxError
             ELSE IF t[i + 1] \in {Char.quote, Char.backslash}
                 THEN Prefixed(t[i + 1], StringFrom(t, i + 2))
             ELSE IF t[i + 1] = Char.n THEN Prefixed(Char.lineFeed, StringFrom(t, i + 2))
             ELSE IF t[i + 1] \in {47, 98, 102, 114, 116, 117} THEN NotModelled
             ELSE JsonSyntaxError
    ELSE Prefixed(t[i], StringFrom(t, i + 1))

\* the token at position i: a string where one is expected
StringAt(t, i, others) ==
    IF i > Len(t) THEN JsonSyntaxError
    ELSE IF t[i] = Char.quote THEN StringFrom(t, i + 1)
    ELSE IF t[i] \in JsonSpace \cup others THEN NotModelled
    ELSE JsonSyntaxError

\* the member key : value goes in front of the members that r holds
WithMember(key, value, r) ==
    IF r.kind = "object" THEN [r EXCEPT !.members = <<[key |-> key, value |-> value]>> \o @]
    ELSE r

\* the members of an object from position i, where a key begins, to the
\* closing brace, which ends the text
RECURSIVE MembersFrom(_, _)
MembersFrom(t, i) ==
    LET key == StringAt(t, i, {})
    IN  IF key.kind # "string" THEN key
        ELSE IF key.next > Len(t) THEN JsonSyntaxError
        ELSE IF t[key.next] \in JsonSpace THEN NotModelled
        ELSE IF t[key.next] # Char.colon THEN JsonSyntaxError
        ELSE LET value == StringAt(t, key.next + 1, ValueStart)
             IN  IF value.kind # "string" THEN value
                 ELSE IF value.next > Len(t) THEN JsonSyntaxError
                 ELSE IF t[value.next] \in JsonSpace THEN NotModelled
                 ELSE IF t[value.next] = Char.comma
                     THEN WithMember(key.value, value.value, MembersFrom(t, value.next + 1))
                 ELSE IF t[value.next] # Char.closeBrace THEN JsonSyntaxError
                 ELSE IF value.next = Len(t)
                     THEN [kind |-> "object",
                           members |-> <<[key |-> key.value, value |-> value.value]>>]
                 ELSE IF t[value.next + 1] \in JsonSpace THEN NotModelled
                 ELSE JsonSyntaxError

\* JSON.parse returns null: reading a property of it throws a TypeError
JsonNull == [kind |-> "null"]

\* JSON.parse(text)
JsonParseText(t) ==
    IF t = <<>> THEN JsonSyntaxError
    ELSE IF t = <<110, 117, 108, 108>> THEN JsonNull
    ELSE IF t = <<Char.openBrace, Char.closeBrace>> THEN [kind |-> "object", members |-> <<>>]
    ELSE IF t[1] \in JsonSpace \cup (ValueStart \ {Char.openBrace}) \cup {Char.quote}
        THEN NotModelled
    ELSE IF t[1] # Char.openBrace THEN JsonSyntaxError
    ELSE IF Len(t) = 1 THEN JsonSyntaxError
    ELSE IF t[2] \in JsonSpace \cup {Char.closeBrace} THEN NotModelled
    ELSE MembersFrom(t, 2)

\* data[key] of the parsed object: the member written last, the empty text
\* for undefined (both are falsy, and all the effect does is test them)
Property(data, key) ==
    LET at == {n \in DOMAIN data.members : data.members[n].key = key}
    IN  IF at = {} THEN <<>>
        ELSE data.members[CHOOSE n \in at : \A m \in at : m <= n].value

\* the effect of Builder without the test of data.sql
LoadShared_NoSqlTest(b, shared) ==
    LET decoded == atob(shared)
        data == IF decoded = InvalidCharacterError THEN JsonSyntaxError
                ELSE JsonParseText(decoded)
    IN  IF shared = <<>> THEN b
        ELSE IF data.kind = "not modelled" THEN [b EXCEPT !.toast = "not modelled"]
        ELSE IF data.kind \in {"SyntaxError", "null"}
            THEN [b EXCEPT !.toast = "Invalid shared query link"]
        ELSE [b EXCEPT
                 !.query = Property(data, Key.query),
                 !.generatedSQL = Property(data, Key.sql),
                 !.dialect = IF Property(data, Key.dialect) = <<>>
                                 THEN postgresql
                                 ELSE Property(data, Key.dialect),
                 !.schemaText = IF Property(data, Key.schema) = <<>>
                                    THEN b.schemaText
                                    ELSE Property(data, Key.schema),
                 !.toast = "Shared query loaded"]

\* the effect of Builder for the parameter shared of the URL, on the page b
LoadShared(b, shared) ==
    LET decoded == atob(shared)
        data == IF decoded = InvalidCharacterError THEN JsonSyntaxError
                ELSE JsonParseText(decoded)
    IN  IF shared = <<>> THEN b
        ELSE IF data.kind = "not modelled" THEN [b EXCEPT !.toast = "not modelled"]
        ELSE IF data.kind \in {"SyntaxError", "null"}
            THEN [b EXCEPT !.toast = "Invalid shared query link"]
        ELSE IF Property(data, Key.sql) = <<>> THEN b
        ELSE [b EXCEPT
                 !.query = Property(data, Key.query),
                 !.generatedSQL = Property(data, Key.sql),
                 !.dialect = IF Property(data, Key.dialect) = <<>>
                                 THEN postgresql
                                 ELSE Property(data, Key.dialect),
                 !.schemaText = IF Property(data, Key.schema) = <<>>
                                    THEN b.schemaText
                                    ELSE Property(data, Key.schema),
                 !.toast = "Shared query loaded"]

(***************************************************************************)
(* Copy Link on one Builder page, the link opened on another               *)
(***************************************************************************)
\* how many characters the shared SQL text holds at most
MaxSqlLen == 3

\* the characters of the shared texts: a, >, the space, the line feed, the
\* quote and the euro sign
ShareChars == {97, 62, 32, 10, 34, 8364}

\* what the user typed as the query, and the schema text of the context
ShareQueries == {<<>>, <<97>>, <<97, 32, 62>>}
ShareSchemas == {<<>>, <<97, 10, 97>>}
ShareDialects == {postgresql, mysql}

InitShare ==
    /\ env = [p \in ProviderNames |-> ""]
    /\ InitRequests
    /\ InitHistory
    /\ schemaInput = [format |-> "sql", text |-> <<>>]
    /\ schemaResult = NotCalled
    /\ lintRuns = <<>>
    /\ typoLastIndex = <<0, 0, 0, 0, 0>>
    /\ \E sql \in UNION {[1..n -> ShareChars] : n \in 1..MaxSqlLen} :
       \E query \in ShareQueries, dialect \in ShareDialects, schema \in ShareSchemas :
           /\ sqlVersions = <<sql>>
           /\ exportData = [query |-> query, sql |-> sql, dialect |-> dialect,
                            schema |-> schema]
    /\ link = NoLink
    /\ opened = NewBuilder
    /\ InitSession

\* handleCopyLink; the button is disabled while sql is empty. When btoa
\* throws, nothing is written to the clipboard
HandleCopyLink ==
    /\ link = NoLink
    /\ exportData.sql # <<>>
    /\ \E timestamp \in TimeStamps :
           LET encoded == btoa(stringify([version |-> Version10,
                                          query |-> exportData.query,
                                          sql |-> exportData.sql,
                                          dialect |-> exportData.dialect,
                                          schema |-> exportData.schema,
                                          timestamp |-> timestamp]))
           IN  link' = IF encoded = InvalidCharacterError
                           THEN [copied |-> FALSE, threw |-> "InvalidCharacterError"]
                           ELSE [copied |-> TRUE, shared |-> encoded]
    /\ UNCHANGED <<gatewayVars, historyVars, schemaInput, schemaResult, lintRuns,
                   typoLastIndex, sqlVersions, exportData, opened, sessionVars>>

\* a new Builder page is opened with the copied link: its effect runs with
\* the parameter shared of the URL
OpenLink ==
    /\ link.copied
    /\ opened = NewBuilder
    /\ LET shared == searchParamsGet(link.shared)
       IN  opened' = LoadShared([NewBuilder EXCEPT !.shared = shared], shared)
    /\ UNCHANGED <<gatewayVars, historyVars, schemaInput, schemaResult, lintRuns,
                   typoLastIndex, sqlVersions, exportData, link, sessionVars>>

NextShare == HandleCopyLink \/ OpenLink

SpecShare == InitShare /\ [][NextShare]_vars

(***************************************************************************)
(* The claim about share links                                             *)
(***************************************************************************)
\* every text that JSON.parse was given in the behaviours of SpecShare is one
\* whose result the model computes
ParsesModelled == opened.toast # "not modelled"

\* C20 as stated: the share link round trip: whatever the query, the dialect,
\* the schema and the non-empty sql, the Builder page that opened the link
\* Copy Link produced for them has exactly that query, generated SQL and
\* dialect, and that schema text when a schema was shared.
C20_Original ==
    opened.shared # <<>> =>
        /\ opened.query = exportData.query
        /\ opened.generatedSQL = exportData.sql
        /\ opened.dialect = exportData.dialect
        /\ exportData.schema # <<>> => opened.schemaText = exportData.schema

(***************************************************************************)
(* Further properties of the gateway                                       *)
(***************************************************************************)
\* C22: when the reply to generate-multi-sql is not valid JSON once the code
\* fences are stripped, the route answers 200 with a queries list of exactly
\* one element: its sql is the stripped text, its order 1, its dependencies
\* empty.
C22_UnparsedRepliesAreOneQuery ==
    \A r \in Req :
        (/\ pc[r] = "done"
         /\ endpoint[r] = "generate-multi-sql"
         /\ outcome[r].kind = "text"
         /\ ~IsJSONValue(StripJsonFences(outcome[r].text)))
        => /\ resp[r].status = 200
           /\ sent[r] = 1
           /\ resp[r].fields = {<<"queries", "list">>}
           /\ "queries" \in DOMAIN resp[r]
           /\ Len(resp[r].queries) = 1
           /\ resp[r].queries[1].sql = StripJsonFences(outcome[r].text)
           /\ resp[r].queries[1].order = 1
           /\ resp[r].queries[1].dependencies = <<>>

\* C22 witness: the reply was fenced SQL, which is no JSON; the one query
\* holds the SQL without its fences
C22_Witness ==
    /\ pc[1] = "done"
    /\ endpoint[1] = "generate-multi-sql"
    /\ outcome[1] = Outcome("text", <<"~~~sql", "SELECT", "word", ";", "~~~">>)
    /\ resp[1].status = 200
    /\ resp[1].queries[1].sql # outcome[1].text
    /\ resp[1].queries[1].sql = <<"word", "SELECT", "word", ";">>

\* one request from its arrival to its response
FirstRequest == pc[1] = "idle" /\ Request

\* the outcomes of the call: every failure, and the short replies that take
\* each route down each of its paths behind the call
LiveOutcomes ==
    {Outcome(k, <<>>) : k \in {"throw", "badbody", "error", "errorNoMsg"}}
      \cup {Outcome("text", t) :
               t \in {<<>>, <<"word">>, <<"{", "}">>, <<"notadb">>}}

LiveReply == \E o \in LiveOutcomes : CallSettles(1, o)

NextLive == FirstRequest \/ LiveReply \/ Respond

\* the gateway when the event loop runs every continuation that is ready: a
\* handler whose awaited call has settled is resumed
SpecLive == Init /\ [][NextLive]_vars /\ WF_vars(Respond)

\* C23: every request a route accepted gets exactly one response: none
\* while its outbound call is pending, one when the handler has run to its
\* end on whatever path (validation failure, missing key, error payload,
\* parse fallback, exception), never two; and once the call has settled the
\* response is sent.
C23_ExactlyOneResponse ==
    /\ [](\A r \in Req :
             /\ sent[r] <= 1
             /\ pc[r] = "done" => sent[r] = 1
             /\ pc[r] \in {"awaiting", "settled"} => sent[r] = 0)
    /\ \A r \in Req : (pc[r] = "settled") ~> (pc[r] = "done" /\ sent[r] = 1)

\* C23 witness: the call of image-to-schema threw and the catch block sent
\* the one response
C23_Witness ==
    /\ endpoint[1] = "image-to-schema"
    /\ pc[1] = "done"
    /\ outcome[1].kind = "throw"
    /\ Len(calls[1]) = 1
    /\ sent[1] = 1
    /\ resp[1].status = 500

(***************************************************************************)
(* Properties of the bookmarks in the history store                        *)
(***************************************************************************)
\* the entries of h whose flag is set, in the order of h
FlaggedOf(h) == SelectSeq(h, LAMBDA item : item.isBookmarked = TRUE)

\* C26: after clearHistory the store holds exactly the entries that were
\* bookmarked before the call, in their order, and getBookmarks returns what
\* it returned before the call
C26_ClearKeepsBookmarks ==
    [][lastCall'.op = "clearHistory" =>
          /\ history' = FlaggedOf(history)
          /\ \A i \in 1..Len(history') : history'[i].isBookmarked
          /\ getBookmarks(history') = getBookmarks(history)]_vars

\* clearHistory has removed the third entry, which no call deletes, and has
\* kept the bookmarked second one
C26_Witness ==
    /\ lastCall.op = "clearHistory"
    /\ nextId = 3
    /\ Len(history) = 1
    /\ history[1].id = 2

\* C27: an entry that is bookmarked stays in the store, bookmarked, through
\* every call of addToHistory and of clearHistory
C27_Original ==
    [][lastCall'.op \in {"addToHistory", "clearHistory"} =>
          \A i \in 1..Len(history) :
              history[i].isBookmarked =>
                  \E j \in 1..Len(history') : history'[j] = history[i]]_vars

\* C28: toggleBookmark(id) flips the flag of the entry with that id and of
\* no other, keeps the order, and returns the new flag; for an id that is not
\* in the store it returns false and leaves the store as it is; two calls
\* with the same id restore the store
C28_ToggleFlipsOne ==
    [][lastCall'.op = "toggleBookmark" =>
          LET id == lastCall'.id
              known == \E i \in 1..Len(history) : history[i].id = id
          IN  /\ Len(history') = Len(history)
              /\ \A i \in 1..Len(history) :
                    history'[i] =
                        IF history[i].id = id
                            THEN [history[i] EXCEPT
                                      !.isBookmarked = ~history[i].isBookmarked]
                        ELSE history[i]
              /\ known =>
                    \A i \in 1..Len(history) :
                        history[i].id = id =>
                            lastCall'.returned = history'[i].isBookmarked
              /\ ~known => history' = history /\ lastCall'.returned = FALSE
              /\ toggleBookmark(history', id) = history]_vars

\* toggleBookmark has set the bookmark of one of two entries
C28_Witness ==
    /\ lastCall.op = "toggleBookmark"
    /\ lastCall.id = 1
    /\ lastCall.returned = TRUE
    /\ Len(history) = 2
    /\ history[2].id = 1
    /\ history[2].isBookmarked
    /\ ~history[1].isBookmarked

(***************************************************************************)
(* The sample data of the schema context (SchemaContext.tsx)               *)
(***************************************************************************)
\* the table names the uploader passes, after its trim
TableNames == {"users", "orders", "items", "products"}

\* the parsed rows of two uploads for one table
SampleRows == {<< <<"1">> >>, << <<"1">>, <<"2">> >>}

SampleUploads ==
    [tableName : TableNames, columns : {<<"id">>}, rows : SampleRows]

\* addSampleData without the filter
addSampleData_Append(prev, data) == Append(prev, data)

\* the updater of addSampleData: [...prev.filter(d => d.tableName !==
\* data.tableName), data]
addSampleData(prev, data) ==
    Append(SelectSeq(prev, LAMBDA d : d.tableName # data.tableName), data)

\* the updater of removeSampleData
removeSampleData(prev, tableName) ==
    SelectSeq(prev, LAMBDA d : d.tableName # tableName)

\* handleAddData and the JSON upload call addSampleData with the parsed data
AddSampleData ==
    /\ \E data \in SampleUploads :
          /\ sampleData' = addSampleData(sampleData, data)
          /\ lastCall' = [op |-> "addSampleData", data |-> data]
    /\ UNCHANGED <<gatewayVars, history, nextId, schemaInput, schemaResult, lintRuns,
                   typoLastIndex, pageVars, ui, inflight, importDialog>>

\* the remove button of a listed table
RemoveSampleData ==
    /\ \E tableName \in TableNames :
          /\ sampleData' = removeSampleData(sampleData, tableName)
          /\ lastCall' = [op |-> "removeSampleData", tableName |-> tableName]
    /\ UNCHANGED <<gatewayVars, history, nextId, schemaInput, schemaResult, lintRuns,
                   typoLastIndex, pageVars, ui, inflight, importDialog>>

NextSamples == AddSampleData \/ RemoveSampleData

SpecSamples == InitStore /\ [][NextSamples]_vars

\* the entries of list for the tables other than name, in the order of list
OtherTables(list, name) == SelectSeq(list, LAMBDA d : d.tableName # name)

\* C30: sampleData holds at most one entry per tableName; addSampleData puts
\* the new entry last and keeps the entries of the other tables in order, and
\* removeSampleData(tableName) removes the entry of that table only
C30_OneEntryPerTable ==
    /\ [](\A i, j \in 1..Len(sampleData) :
              sampleData[i].tableName = sampleData[j].tableName => i = j)
    /\ [][/\ lastCall'.op = "addSampleData" =>
                /\ Len(sampleData') >= 1
                /\ sampleData'[Len(sampleData')] = lastCall'.data
                /\ SubSeq(sampleData', 1, Len(sampleData') - 1) =
                       OtherTables(sampleData, lastCall'.data.tableName)
          /\ lastCall'.op = "removeSampleData" =>
                /\ sampleData' = OtherTables(sampleData, lastCall'.tableName)
                /\ \A i \in 1..Len(sampleData') :
                       sampleData'[i].tableName # lastCall'.tableName]_vars

\* the data of users was uploaded again while orders was listed after it: the
\* new entry of users comes last
C30_Witness ==
    /\ lastCall.op = "addSampleData"
    /\ Len(sampleData) = 2
    /\ sampleData[1].tableName = "orders"
    /\ sampleData[2].tableName = "users"
    /\ sampleData[2].rows = << <<"1">>, <<"2">> >>
    /\ lastCall.data = sampleData[2]

(***************************************************************************)
(* Shared payloads that do not load: the shared parameter of a URL and the *)
(* text of Import Query (QueryShare.handleImport)                          *)
(***************************************************************************)
\* the JSON text of an object whose members are the pairs <<key, value>>
RECURSIVE MembersText(_)
MembersText(pairs) ==
    IF pairs = <<>> THEN <<>>
    ELSE Member(pairs[1][1], pairs[1][2])
         \o (IF Len(pairs) = 1 THEN <<>> ELSE <<Char.comma>> \o MembersText(Tail(pairs)))

ObjectText(pairs) == <<Char.openBrace>> \o MembersText(pairs) \o <<Char.closeBrace>>

\* texts that hold a query to load: the sql alone, and every member
LoadableTexts ==
    {ObjectText(<< <<Key.sql, <<97>>>> >>),
     ObjectText(<< <<Key.query, <<97, 32, 62>>>>, <<Key.sql, <<97, 62>>>>,
                   <<Key.dialect, mysql>>, <<Key.schema, <<97, 10, 97>>>> >>)}

\* texts that hold none: the empty text, the text a, null, {} , an object
\* without sql, one whose sql is empty, and an object that is cut off
BrokenTexts ==
    {<<>>, <<97>>, <<110, 117, 108, 108>>, ObjectText(<<>>),
     ObjectText(<< <<Key.query, <<97>>>>, <<Key.dialect, mysql>> >>),
     ObjectText(<< <<Key.query, <<97>>>>, <<Key.sql, <<>>>>, <<Key.schema, <<97>>>> >>),
     <<Char.openBrace, Char.quote, 115, 113, 108, Char.quote, Char.colon, Char.quote, 97>>}

ImportTexts == LoadableTexts \cup BrokenTexts

\* the shared parameters of the URLs: the base64 of these texts, one digit
\* alone, and a text with '=' at its front
SharedParams ==
    {btoa(t) : t \in ImportTexts \ {<<>>}} \cup {<<0>>, <<Digit.pad, 0, 0, 0>>}

\* the Builder pages: a new one, and one with a query, its SQL, a dialect
\* and a schema
BuilderPages ==
    {NewBuilder,
     [NewBuilder EXCEPT !.query = <<113>>, !.generatedSQL = <<115>>,
                        !.dialect = mysql, !.schemaText = <<116>>]}

InitImport ==
    /\ env = [p \in ProviderNames |-> ""]
    /\ InitRequests
    /\ InitHistory
    /\ schemaInput = [format |-> "sql", text |-> <<>>]
    /\ schemaResult = NotCalled
    /\ lintRuns = <<>>
    /\ typoLastIndex = <<0, 0, 0, 0, 0>>
    /\ sqlVersions = << <<>> >>
    /\ exportData = [query |-> <<>>, sql |-> <<>>, dialect |-> postgresql, schema |-> <<>>]
    /\ link = NoLink
    /\ opened \in BuilderPages
    /\ InitSession

\* the router gives the Builder page a URL with a parameter shared: the
\* effect runs again
OpenUrl ==
    /\ \E shared \in SharedParams :
          /\ opened' = LoadShared([opened EXCEPT !.shared = shared], shared)
          /\ lastCall' = [op |-> "openUrl", shared |-> shared]
    /\ UNCHANGED <<gatewayVars, history, nextId, schemaInput, schemaResult, lintRuns,
                   typoLastIndex, sqlVersions, exportData, link, sessionVars>>

\* the dialog is opened and a text is pasted into Import Query
PasteImport ==
    /\ \E text \in ImportTexts :
          importDialog' = [importDialog EXCEPT !.isOpen = TRUE, !.importData = text]
    /\ lastCall' = [op |-> "setImportData"]
    /\ UNCHANGED <<gatewayVars, history, nextId, schemaInput, schemaResult, lintRuns,
                   typoLastIndex, pageVars, sampleData, ui, inflight>>

\* handleLoadSharedQuery, the listener of Builder for loadSharedQuery
handleLoadSharedQuery(b, data) ==
    [b EXCEPT
        !.query = Property(data, Key.query),
        !.generatedSQL = Property(data, Key.sql),
        !.dialect = IF Property(data, Key.dialect) = <<>>
                        THEN postgresql
                        ELSE Property(data, Key.dialect),
        !.schemaText = IF Property(data, Key.schema) = <<>>
                           THEN b.schemaText
                           ELSE Property(data, Key.schema)]

\* JSON.parse(importData) gives an object with a truthy sql
Importable(data) == data.kind = "object" /\ Property(data, Key.sql) # <<>>

\* loadSharedQuery events dispatched in one run
MaxImports == 2

\* handleImport; the button is disabled while the text is empty (no text of
\* the model is white space only). dispatchEvent runs the listener of Builder
\* before it returns; a SyntaxError, the TypeError of null.sql and the Error
\* thrown for a falsy sql all reach the catch
HandleImport ==
    /\ importDialog.isOpen
    /\ importDialog.importData # <<>>
    /\ LET data == JsonParseText(importDialog.importData)
       IN  /\ data.kind # "not modelled"
           /\ IF Importable(data)
                  THEN /\ Len(importDialog.dispatched) < MaxImports
                       /\ opened' = handleLoadSharedQuery(opened, data)
                       /\ importDialog' =
                              [isOpen |-> FALSE, importData |-> <<>>,
                               toast |-> "Query imported successfully",
                               dispatched |-> Append(importDialog.dispatched, data)]
                  ELSE /\ opened' = opened
                       /\ importDialog' =
                              [importDialog EXCEPT !.toast = "Invalid query data format"]
    /\ lastCall' = [op |-> "handleImport"]
    /\ UNCHANGED <<gatewayVars, history, nextId, schemaInput, schemaResult, lintRuns,
                   typoLastIndex, sqlVersions, exportData, link, sampleData, ui, inflight>>

NextImport == OpenUrl \/ PasteImport \/ HandleImport

SpecImport == InitImport /\ [][NextImport]_vars

\* the text holds no query to load: JSON.parse throws, or gives null or an
\* object without a non-empty sql
NothingToLoad(text) ==
    LET data == JsonParseText(text)
    IN  data.kind = "object" => Property(data, Key.sql) = <<>>

\* the shared parameter is not the base64 of a text with a query to load
InvalidShared(shared) ==
    atob(shared) = InvalidCharacterError \/ NothingToLoad(atob(shared))

\* C29: a URL whose shared parameter is invalid leaves the query, the
\* generated SQL, the dialect and the schema text of the page as they were;
\* Import Query with a text that holds no query dispatches no loadSharedQuery
\* event, changes nothing on the page, and keeps the dialog open with its text
C29_InvalidPayloadChangesNothing ==
    [][/\ (lastCall'.op = "openUrl" /\ InvalidShared(lastCall'.shared)) =>
              /\ opened'.query = opened.query
              /\ opened'.generatedSQL = opened.generatedSQL
              /\ opened'.dialect = opened.dialect
              /\ opened'.schemaText = opened.schemaText
       /\ (lastCall'.op = "handleImport" /\ NothingToLoad(importDialog.importData)) =>
              /\ importDialog'.dispatched = importDialog.dispatched
              /\ importDialog'.isOpen
              /\ importDialog'.importData = importDialog.importData
              /\ opened' = opened]_vars

\* a page with a query was given a URL whose payload has no sql, and then an
\* import of a text without sql was refused
C29_Witness ==
    /\ lastCall.op = "handleImport"
    /\ importDialog.toast = "Invalid query data format"
    /\ importDialog.isOpen
    /\ importDialog.importData = ObjectText(<< <<Key.query, <<97>>>>, <<Key.dialect, mysql>> >>)
    /\ importDialog.dispatched = <<>>
    /\ opened.shared = btoa(ObjectText(<< <<Key.query, <<97>>>>, <<Key.dialect, mysql>> >>))
    /\ opened.generatedSQL = <<115>>
    /\ opened.dialect = mysql

(***************************************************************************)
(* The actions of the Builder page that call the API (Builder.tsx, api.ts) *)
(***************************************************************************)
\* how often generatedSQL is set by a generation, the history or a fix
MaxSqlChanges == 2

\* how many of the six API buttons are used in one run
MaxButtons == 2

\* what is typed into the query box: blanks only, or a description
BuilderQueries == {<<" ">>, <<"users">>}

\* the SQL text the generator gives, which Format changes, and the one of
\* the debugger's fix
GeneratedSqls == {<<"a", " ", "and", " ", "a">>}

FixedSqls == {<<"a">>}

\* toast.success of each handler
SuccessToast ==
    [generate |-> "Query generated successfully!",
     explain  |-> "Explanation generated!",
     convert  |-> "Converted to MYSQL",
     optimize |-> "Optimization analysis complete!",
     run      |-> "Mock results generated!",
     export   |-> "Exported to Prisma"]

\* the message of the Error that api throws when the error body has no
\* error field
ClientFallback ==
    [generate |-> "Failed to generate SQL",
     explain  |-> "Failed to explain SQL",
     convert  |-> "Failed to convert SQL",
     optimize |-> "Failed to optimize SQL",
     run      |-> "Failed to generate mock results",
     export   |-> "Failed to export to ORM"]

\* the error field of the bodies the server sends with a status 400 or 500
ServerErrors ==
    {"No AI provider configured"}

\* the messages of the TypeError of fetch and of the SyntaxError of
\* response.json(), as Chrome words them
ExceptionMessage ==
    [fetch |-> "Failed to fetch",
     json  |-> "Unexpected token '<', \"<!DOCTYPE \"... is not valid JSON"]

\* how a fetch ends: it rejects, or it gives a response that is ok or not,
\* whose body is JSON or not; the bodies of the failures carry an error
\* field or none
Responses ==
    {[kind |-> "rejected"]}
    \cup [kind : {"response"}, ok : {FALSE}, json : {TRUE}, error : ServerErrors \cup {""}]
    \cup [kind : {"response"}, ok : BOOLEAN, json : {FALSE}, error : {""}]
    \cup [kind : {"response"}, ok : {TRUE}, json : {TRUE}, error : {""}]

\* one function of api: what it returns or throws for the end of its fetch
ApiCall(a, response) ==
    IF response.kind = "rejected"
        THEN [kind |-> "threw", message |-> ExceptionMessage.fetch]
    ELSE IF ~response.json
        THEN [kind |-> "threw", message |-> ExceptionMessage.json]
    ELSE IF ~response.ok
        THEN [kind |-> "threw",
              message |-> IF response.error # "" THEN response.error
                          ELSE ClientFallback[a]]
    ELSE [kind |-> "returned"]

\* the buttons of one run: Generate and others
ButtonSets ==
    {S \in SUBSET BuilderActions : "generate" \in S /\ Cardinality(S) <= MaxButtons}

InitBuilder ==
    /\ env = [p \in ProviderNames |-> ""]
    /\ InitRequests
    /\ InitHistory
    /\ schemaInput = [format |-> "sql", text |-> <<>>]
    /\ schemaResult = NotCalled
    /\ lintRuns = <<>>
    /\ typoLastIndex = <<0, 0, 0, 0, 0>>
    /\ InitPage
    /\ sampleData = <<>>
    /\ ui = NewUi
    /\ \E S \in ButtonSets : inflight = [a \in S |-> <<>>]
    /\ importDialog = NewDialog

\* the onChange of the query box
TypeQuery ==
    /\ \E text \in BuilderQueries : ui' = [ui EXCEPT !.query = text]
    /\ UNCHANGED <<gatewayVars, historyVars, schemaInput, schemaResult, lintRuns,
                   typoLastIndex, pageVars, sampleData, inflight, importDialog>>

\* handleGenerate with a button that is never disabled
HandleGenerate_NeverDisabled ==
    /\ IF trim(ui.query) = <<>>
           THEN /\ ui' = [ui EXCEPT !.toast = [kind |-> "error",
                                               message |-> "Please enter a query description"]]
                /\ UNCHANGED inflight
           ELSE /\ ui' = [ui EXCEPT !.isGenerating = TRUE]
                /\ inflight' = [inflight EXCEPT
                                   !.generate = Append(@, [query |-> ui.query,
                                                           schemaText |-> <<>>,
                                                           dialect |-> "postgresql"])]
    /\ UNCHANGED <<gatewayVars, historyVars, schemaInput, schemaResult, lintRuns,
                   typoLastIndex, pageVars, sampleData, importDialog>>

\* handleGenerate, up to its await; the button is disabled while
\* isGenerating
HandleGenerate ==
    /\ ~ui.isGenerating
    /\ IF trim(ui.query) = <<>>
           THEN /\ ui' = [ui EXCEPT !.toast = [kind |-> "error",
                                               message |-> "Please enter a query description"]]
                /\ UNCHANGED inflight
           ELSE /\ ui' = [ui EXCEPT !.isGenerating = TRUE]
                /\ inflight' = [inflight EXCEPT
                                   !.generate = Append(@, [query |-> ui.query,
                                                           schemaText |-> <<>>,
                                                           dialect |-> "postgresql"])]
    /\ UNCHANGED <<gatewayVars, historyVars, schemaInput, schemaResult, lintRuns,
                   typoLastIndex, pageVars, sampleData, importDialog>>

\* handleExplain, handleConvert, handleOptimize, handleRun and handleExport,
\* up to their await; each button is disabled while generatedSQL is empty
\* or the flag of the action is set
StartRequest(a) ==
    /\ a \in DOMAIN inflight
    /\ generatedSQL # <<>>
    /\ ~ui[StateOf[a].flag]
    /\ ui' = [ui EXCEPT ![StateOf[a].flag] = TRUE]
    /\ inflight' = [inflight EXCEPT ![a] = Append(@, [sql |-> generatedSQL])]
    /\ UNCHANGED <<gatewayVars, historyVars, schemaInput, schemaResult, lintRuns,
                   typoLastIndex, pageVars, sampleData, importDialog>>

HandleExplain == StartRequest("explain")

HandleConvert == StartRequest("convert")

HandleOptimize == StartRequest("optimize")

HandleRun == StartRequest("run")

HandleExport == StartRequest("export")

\* the sequence s without its i-th element
Without(s, i) == SubSeq(s, 1, i - 1) \o SubSeq(s, i + 1, Len(s))

\* the rest of handleGenerate: api.generateSQL settles
GenerateSettles ==
    /\ \E i \in 1..Len(inflight.generate), response \in Responses, sql \in GeneratedSqls :
          LET call == inflight.generate[i]
              settled == ApiCall("generate", response)
          IN  /\ inflight' = [inflight EXCEPT !.generate = Without(@, i)]
              /\ lastCall' = [op |-> "api", action |-> "generate", outcome |-> settled]
              /\ IF settled.kind = "returned"
                     THEN /\ Len(sqlVersions) <= MaxSqlChanges
                          /\ sqlVersions' = Append(sqlVersions, sql)
                          /\ history' = addToHistory(history,
                                 NewItem(nextId + 1, call.query, sql, call.dialect))
                          /\ nextId' = nextId + 1
                          /\ ui' = [ui EXCEPT
                                       !.isGenerating = FALSE,
                                       !.toast = [kind |-> "success",
                                                  message |-> SuccessToast.generate]]
                     ELSE /\ ui' = [ui EXCEPT
                                       !.isGenerating = FALSE,
                                       !.toast = [kind |-> "error",
                                                  message |-> settled.message]]
                          /\ UNCHANGED <<sqlVersions, history, nextId>>
    /\ UNCHANGED <<gatewayVars, schemaInput, schemaResult, lintRuns, typoLastIndex,
                   exportData, link, opened, sampleData, importDialog>>

\* the other five handlers without their finally block
ActionSettles_NoFinally(a) ==
    /\ a \in DOMAIN inflight
    /\ \E i \in 1..Len(inflight[a]), response \in Responses :
          LET call == inflight[a][i]
              settled == ApiCall(a, response)
          IN  /\ inflight' = [inflight EXCEPT ![a] = Without(@, i)]
              /\ lastCall' = [op |-> "api", action |-> a, outcome |-> settled]
              /\ ui' = IF settled.kind = "returned"
                           THEN [ui EXCEPT
                                    ![StateOf[a].result] = [shown |-> TRUE, sql |-> call.sql],
                                    ![StateOf[a].flag] = FALSE,
                                    !.toast = [kind |-> "success",
                                               message |-> SuccessToast[a]]]
                           ELSE [ui EXCEPT
                                    !.toast = [kind |-> "error",
                                               message |-> settled.message]]
    /\ UNCHANGED <<gatewayVars, history, nextId, schemaInput, schemaResult, lintRuns,
                   typoLastIndex, pageVars, sampleData, importDialog>>

\* the rest of the other five handlers: the result that is displayed is the
\* one of the SQL text the call was made with
ActionSettles(a) ==
    /\ a \in DOMAIN inflight
    /\ \E i \in 1..Len(inflight[a]), response \in Responses :
          LET call == inflight[a][i]
              settled == ApiCall(a, response)
          IN  /\ inflight' = [inflight EXCEPT ![a] = Without(@, i)]
              /\ lastCall' = [op |-> "api", action |-> a, outcome |-> settled]
              /\ ui' = IF settled.kind = "returned"
                           THEN [ui EXCEPT
                                    ![StateOf[a].result] = [shown |-> TRUE, sql |-> call.sql],
                                    ![StateOf[a].flag] = FALSE,
                                    !.toast = [kind |-> "success",
                                               message |-> SuccessToast[a]]]
                           ELSE [ui EXCEPT
                                    ![StateOf[a].flag] = FALSE,
                                    !.toast = [kind |-> "error",
                                               message |-> settled.message]]
    /\ UNCHANGED <<gatewayVars, history, nextId, schemaInput, schemaResult, lintRuns,
                   typoLastIndex, pageVars, sampleData, importDialog>>

\* handleLoadSQLFromHistory with the sql of an entry of the history panel
HandleLoadSQLFromHistory ==
    /\ Len(sqlVersions) <= MaxSqlChanges
    /\ \E i \in 1..Len(history) : sqlVersions' = Append(sqlVersions, history[i].sql)
    /\ UNCHANGED <<gatewayVars, historyVars, schemaInput, schemaResult, lintRuns,
                   typoLastIndex, exportData, link, opened, sessionVars>>

\* onApplyFix of the debugger: setGeneratedSQL(sql)
ApplyFix ==
    /\ Len(sqlVersions) <= MaxSqlChanges
    /\ \E sql \in FixedSqls : sqlVersions' = Append(sqlVersions, sql)
    /\ UNCHANGED <<gatewayVars, historyVars, schemaInput, schemaResult, lintRuns,
                   typoLastIndex, exportData, link, opened, sessionVars>>

NextBuilder ==
    \/ TypeQuery
    \/ HandleGenerate
    \/ HandleExplain
    \/ HandleConvert
    \/ HandleOptimize
    \/ HandleRun
    \/ HandleExport
    \/ GenerateSettles
    \/ \E a \in BuilderActions \ {"generate"} : ActionSettles(a)
    \/ HandleFormat
    \/ HandleLoadSQLFromHistory
    \/ ApplyFix

SpecBuilder == InitBuilder /\ [][NextBuilder]_vars

(***************************************************************************)
(* Properties of the Builder actions                                       *)
(***************************************************************************)
\* the API call of action a settles in this step
Settles(a) ==
    /\ a \in DOMAIN inflight
    /\ Len(inflight'[a]) < Len(inflight[a])

\* the messages the server sends and the fallback of the API client
ServerOrFallback(a) == ServerErrors \cup {ClientFallback[a]}

\* what a failed call leaves as it was: the result displayed for the action
\* and, for generate, the history
FailureKeepsResults(a) ==
    /\ ui'[StateOf[a].flag] = FALSE
    /\ IF a = "generate"
           THEN sqlVersions' = sqlVersions /\ history' = history
           ELSE ui'[StateOf[a].result] = ui[StateOf[a].result]

\* C21 as stated: when the API call of a Builder action fails, the toast is
\* an error toast with the server's error message or the generic fallback
\* string, the loading flag is false again, the displayed result is unchanged
\* and a failed generate adds no history entry
C21_Original ==
    [][\A a \in BuilderActions :
          (Settles(a) /\ lastCall'.outcome.kind = "threw") =>
              /\ ui'.toast.kind = "error"
              /\ ui'.toast.message \in ServerOrFallback(a)
              /\ FailureKeepsResults(a)]_vars

\* C21 amended: the error toast carries the message of the Error that the API
\* client threw, which is the server's error message, the fallback string
\* when the error body has no error field, or the message of the exception
\* of fetch or of response.json() when no JSON body arrived; the loading flag
\* is false again, the displayed result is unchanged and a failed generate
\* adds no history entry
C21_FailureToastsAndKeepsResults ==
    [][\A a \in BuilderActions :
          (Settles(a) /\ lastCall'.outcome.kind = "threw") =>
              /\ ui'.toast.kind = "error"
              /\ ui'.toast.message \in
                     ServerOrFallback(a) \cup {ExceptionMessage.fetch, ExceptionMessage.json}
              /\ ui'.toast.message = lastCall'.outcome.message
              /\ FailureKeepsResults(a)]_vars

\* an explanation is displayed, and the explain call made after it has
\* failed with the server's message
C21_Witness ==
    /\ lastCall.op = "api"
    /\ lastCall.action = "explain"
    /\ lastCall.outcome.kind = "threw"
    /\ ui.toast = [kind |-> "error", message |-> "No AI provider configured"]
    /\ ui.explanation.shown
    /\ ~ui.isExplaining
    /\ inflight.explain = <<>>

\* C24: isGenerating is true exactly while a generate request is in flight;
\* a generate request starts only while isGenerating is false, so at most one
\* is outstanding; when it settles, by success or by failure, isGenerating is
\* false again
C24_OneGenerateInFlight ==
    /\ [](ui.isGenerating <=> inflight.generate # <<>>)
    /\ [](Len(inflight.generate) <= 1)
    /\ [][Len(inflight'.generate) > Len(inflight.generate) => ~ui.isGenerating]_vars
    /\ [][Settles("generate") => ~ui'.isGenerating]_vars

\* a generate request has failed after an earlier one succeeded, and the
\* button is enabled again
C24_Witness ==
    /\ lastCall.op = "api"
    /\ lastCall.action = "generate"
    /\ lastCall.outcome.kind = "threw"
    /\ Len(history) = 1
    /\ ~ui.isGenerating
    /\ inflight.generate = <<>>

\* the results C25 is about
DisplayedResults == {"explanation", "mockResults", "convertedSQL", "exportedCode"}

\* C25 as stated: a displayed explanation, mock result, converted SQL or
\* exported code was computed from the SQL text that generatedSQL holds
C25_Original ==
    \A r \in DisplayedResults : ui[r].shown => ui[r].sql = generatedSQL

====
